---- MODULE Spec2Model ----
(***************************************************************************)
(* A model of unbound-manager: the backup manager (create, list, restore,  *)
(* cleanup), the installer's update workflow and the other destructive     *)
(* workflows, the configuration manager's quick edit and its forwarding    *)
(* configuration generator.                                                *)
(***************************************************************************)
EXTENDS Integers, Sequences, FiniteSets, TLC

(***************************************************************************)
(* Bounds of the model.                                                    *)
(***************************************************************************)
\* file contents are 1..MaxContent; 0 stands for "no such entry"
MaxContent == 2
\* the wall clock of create_backup's timestamp runs over 1..MaxTs
MaxTs == 3
\* the largest keep argument given to cleanup_old_backups
MaxKeep == 2
\* the most lines server.conf starts with
MaxLines == 2
\* the most runs of quick_edit_config
MaxEdits == 2
\* the most servers in a provider's list
MaxServers == 2
\* the most applications of create_forwarding_config
MaxCalls == 2
\* the most lines server.conf starts with when access control is edited
MaxAcLines == 3
\* the most access-control edits
MaxAcEdits == 2
\* the most iterations of test_performance
MaxQueries == 4
\* the most digits to the base 1024 of a byte count
MaxDigits == 6
\* the most runs of setup_root_hints
MaxHintCalls == 3
\* the most runs of fix_existing_installation
MaxFixRuns == 2

VARIABLES
    conf,           \* UNBOUND_DIR: top-level entry name -> content (0 = absent), "backups" left out
    archives,       \* BACKUP_DIR/backup_*.tar.gz: archive name -> members (member name -> content)
    origin,         \* per archive made by create_backup: conf as it was at that time
    stagingExists,  \* BACKUP_DIR/temp_restore exists
    staging,        \* BACKUP_DIR/temp_restore: top-level entry name -> content (0 = absent)
    outside,        \* paths written that are neither in the staging directory nor entries of conf
    now,            \* datetime.now() at one-second resolution
    last,           \* what the last backup-manager call did and returned
    wf,             \* the workflow in progress: "idle" or the name of the operation
    pc,             \* the statement the workflow is at
    log,            \* the commands and file-system operations issued so far, with outcome
    service,        \* the resolver's systemd unit: "active" or "inactive"
    binary,         \* the installed resolver binary: "old" or "new"
    curKnown,       \* update_unbound: current_version was obtained from "unbound -V"
    version,        \* update_unbound: what select_version returned
    dlOk,           \* update_unbound: download_successful
    compOk,         \* update_unbound: compilation_successful
    bpath,          \* the archive create_backup returned to the workflow
    sel,            \* restore_backup: selected_backup
    package,        \* the manager's own package: "installed" or "removed"
    serverConf,     \* conf.d/server.conf: its text split at "\n", one record per line
    confBackups,    \* the server.conf.backup.<timestamp> files next to it, by timestamp
    edits,          \* how often quick_edit_config has run
    qlast,          \* what the last quick edit was given and what it did
    provider,       \* the provider dictionary create_forwarding_config is given
    forwardConf,    \* conf.d/forward.conf: whether it exists, and its lines
    calls,          \* how often create_forwarding_config has been applied
    flast,          \* what the last create_forwarding_config found and did
    acFile,         \* conf.d/server.conf as edit_access_control reads it: its lines
    acEdits,        \* how many access-control edits have been made
    alast,          \* what the last access-control edit was given and what it found
    sys,            \* what run_diagnostics can observe of the system
    issues,         \* the issues of the last run_diagnostics, in the order of its summary
    ran,            \* run_diagnostics has run on the system as it is
    cursor,         \* InteractiveMenu.current_index
    expanded,       \* the names of the categories whose expanded flag is set
    menuRun,        \* InteractiveMenu.run: running, or how it was left
    cliRun,         \* UnboundManagerCLI.run: looping, or how it was left
    mlast,          \* the last key the menu read and what came of it
    queries,        \* what each dig of test_performance comes to
    pstats,         \* what test_performance printed
    size,           \* a byte count, as its digits to the base 1024, lowest first
    fmt,            \* what the three size formatters make of it
    hints,          \* ROOT_HINTS: what root.hints holds, or "absent"
    hintsBak,       \* what root.hints.bak holds, or "absent"
    hintCalls,      \* how often setup_root_hints has run
    hlast,          \* what the last setup_root_hints found, tried and returned
    inst,           \* the files fix_existing_installation looks after: path -> content (0 = absent)
    fixRuns,        \* how often fix_existing_installation has run
    xlast           \* what the last fix_existing_installation found and called

backupVars == <<conf, archives, origin, stagingExists, staging, outside, now, last>>
wfVars == <<wf, pc, log, service, binary, curKnown, version, dlOk, compOk, bpath, sel,
           package>>
qeVars == <<serverConf, confBackups, edits, qlast>>
fwVars == <<provider, forwardConf, calls, flast>>
acVars == <<acFile, acEdits, alast>>
diagVars == <<sys, issues, ran>>
menuVars == <<cursor, expanded, menuRun, cliRun, mlast>>
perfVars == <<queries, pstats>>
formatVars == <<size, fmt>>
hintsVars == <<hints, hintsBak, hintCalls, hlast>>
fixVars == <<inst, fixRuns, xlast>>
\* the variables of the parts that follow the forwarding configuration
restVars == <<acVars, diagVars, menuVars, perfVars, formatVars, hintsVars, fixVars>>
coreVars == <<backupVars, wfVars, qeVars, fwVars>>
vars == <<coreVars, restVars>>
notAcVars == <<coreVars, diagVars, menuVars, perfVars, formatVars, hintsVars, fixVars>>
notDiagVars == <<coreVars, acVars, menuVars, perfVars, formatVars, hintsVars, fixVars>>
notMenuVars == <<coreVars, acVars, diagVars, perfVars, formatVars, hintsVars, fixVars>>
notPerfVars == <<coreVars, acVars, diagVars, menuVars, formatVars, hintsVars, fixVars>>
notFormatVars == <<coreVars, acVars, diagVars, menuVars, perfVars, hintsVars, fixVars>>
notHintsVars == <<coreVars, acVars, diagVars, menuVars, perfVars, formatVars, fixVars>>
notFixVars == <<coreVars, acVars, diagVars, menuVars, perfVars, formatVars, hintsVars>>

NoOp == [op |-> "none"]
AccessIdle ==
    /\ acFile = <<>>
    /\ acEdits = 0
    /\ alast = NoOp
HealthySystem ==
    [unbound |-> TRUE, redis |-> TRUE, port53 |-> TRUE, control |-> TRUE,
     checkconf |-> "valid", missing |-> {}, dig |-> TRUE, user |-> TRUE]
DiagIdle ==
    /\ sys = HealthySystem
    /\ issues = <<>>
    /\ ran = FALSE
MenuIdle ==
    /\ cursor = 0
    /\ expanded = {}
    /\ menuRun = "running"
    /\ cliRun = "looping"
    /\ mlast = NoOp
PerfIdle ==
    /\ queries = <<>>
    /\ pstats = NoOp
FormatIdle ==
    /\ size = <<>>
    /\ fmt = NoOp
HintsIdle ==
    /\ hints = "absent"
    /\ hintsBak = "absent"
    /\ hintCalls = 0
    /\ hlast = NoOp
FixIdle ==
    /\ inst = <<>>
    /\ fixRuns = 0
    /\ xlast = NoOp
RestIdle ==
    /\ AccessIdle
    /\ DiagIdle
    /\ MenuIdle
    /\ PerfIdle
    /\ FormatIdle
    /\ HintsIdle
    /\ FixIdle

(***************************************************************************)
(* Paths.  A path string is a sequence of atoms (pieces of text); the      *)
(* atoms are chosen so that none is a proper prefix of another, hence one  *)
(* string is a prefix of another exactly when its atom sequence is.  A     *)
(* component is the atom sequence of its text, so that "temp_restore_evil" *)
(* = <<"temp_restore", "_evil">> has "temp_restore" as a string prefix.    *)
(***************************************************************************)
Absent == 0
Contents == 1..MaxContent
Names == {"unbound.conf", "root.key"}
\* UNBOUND_DIR.iterdir(): the entries present, and the backups directory
DirEntries(c) == {n \in Names : c[n] # Absent} \cup {"backups"}

DotDot == <<"..">>
UnboundDirComps == << <<"etc">>, <<"unbound">> >>
BackupDirComps == UnboundDirComps \o << <<"backups">> >>
TempDirComps == BackupDirComps \o << <<"temp_restore">> >>

PlainMember(n) == [abs |-> FALSE, comps |-> << <<n>> >>]
SiblingMember == [abs |-> FALSE, comps |-> << DotDot, <<"temp_restore", "_evil">> >>]
ParentMember == [abs |-> FALSE, comps |-> << DotDot, DotDot, <<"etc">>, <<"passwd">> >>]
ConfEscapeMember == [abs |-> FALSE, comps |-> << DotDot, DotDot, <<"unbound.conf">> >>]
AbsoluteMember == [abs |-> TRUE, comps |-> << <<"etc">>, <<"passwd">> >>]
EscapingMembers == {SiblingMember, ParentMember, ConfEscapeMember, AbsoluteMember}
MemberNames == {PlainMember(n) : n \in Names \cup {"backups"}} \cup EscapingMembers

RECURSIVE Normalize(_, _)
Normalize(acc, rest) ==
    IF rest = <<>> THEN acc
    ELSE IF Head(rest) = DotDot
         THEN Normalize(IF acc = <<>> THEN acc ELSE SubSeq(acc, 1, Len(acc) - 1), Tail(rest))
         ELSE Normalize(Append(acc, Head(rest)), Tail(rest))

\* (dest / member.name).resolve(): an absolute name replaces dest, ".." is folded
Resolve(dest, m) ==
    IF m.abs THEN Normalize(<<>>, m.comps) ELSE Normalize(<<>>, dest \o m.comps)

RECURSIVE PathStr(_)
PathStr(comps) ==
    IF comps = <<>> THEN <<>> ELSE <<"/">> \o Head(comps) \o PathStr(Tail(comps))

StartsWith(s, p) == Len(s) >= Len(p) /\ SubSeq(s, 1, Len(p)) = p

\* component-wise containment: the path is dest itself or below it
IsWithin(target, dest) ==
    Len(target) >= Len(dest) /\ SubSeq(target, 1, Len(dest)) = dest

\* the check of _safe_extract on one member
SafeExtractRejects(m, dest) == ~StartsWith(PathStr(Resolve(dest, m)), PathStr(dest))

(***************************************************************************)
(* Archive file names: backup_<timestamp>[_<description>].tar.gz           *)
(***************************************************************************)
\* the descriptions the program gives, in the string order of the file names they make:
\* ".tar.gz" sorts before "_<description>.tar.gz" ("." is 0x2E, "_" is 0x5F), and the
\* descriptions sort among themselves as strings
DescOrder == <<"", "before_fix", "before_reset", "before_restore", "before_uninstall",
               "before_update">>
Descs == {DescOrder[i] : i \in DOMAIN DescOrder}
ArchiveNames == [ts : 1..MaxTs, desc : Descs]
DescRank(d) == CHOOSE i \in DOMAIN DescOrder : DescOrder[i] = d
\* string order of two archive file names
NameLess(a, b) ==
    \/ a.ts < b.ts
    \/ a.ts = b.ts /\ DescRank(a.desc) < DescRank(b.desc)

EmptyDir == [n \in Names |-> Absent]

\* tar.add(item, arcname=item.name) for every entry of UNBOUND_DIR but "backups"
EntryContent(c, n) == IF n \in Names THEN c[n] ELSE 1
BackupMembersUnfiltered(c) ==
    [m \in {PlainMember(n) : n \in DirEntries(c)} |-> EntryContent(c, m.comps[1][1])]
BackupMembers(c) ==
    [m \in {PlainMember(n) : n \in {x \in DirEntries(c) : x # "backups"}} |->
        EntryContent(c, m.comps[1][1])]

NoLast == [op |-> "none"]


BackupInit ==
    /\ conf \in [Names -> 0..MaxContent]
    /\ archives = <<>>
    /\ origin = <<>>
    /\ stagingExists = FALSE
    /\ staging = EmptyDir
    /\ outside = {}
    /\ now = 1
    /\ last = NoLast

\* create_backup(description)
CreateBackup(desc) ==
    LET name == [ts |-> now, desc |-> desc]
        keep == DOMAIN archives \ {name}
    IN  /\ archives' = [a \in keep \cup {name} |->
                            IF a = name THEN BackupMembers(conf) ELSE archives[a]]
        /\ origin' = [a \in keep \cup {name} |-> IF a = name THEN conf ELSE origin[a]]
        /\ last' = [op |-> "backup", name |-> name]
        /\ UNCHANGED <<conf, stagingExists, staging, outside, now>>

\* the clock advances
Tick ==
    /\ now < MaxTs
    /\ now' = now + 1
    /\ UNCHANGED <<conf, archives, origin, stagingExists, staging, outside, last>>

(***************************************************************************)
(* restore_specific_backup                                                 *)
(***************************************************************************)
\* where extractall writes a member: its name resolved against temp_dir
TargetTable == [m \in MemberNames |-> Resolve(TempDirComps, m)]
TargetOf(m) == TargetTable[m]
StagedMembers ==
    {m \in MemberNames :
        IsWithin(TargetOf(m), TempDirComps) /\ Len(TargetOf(m)) > Len(TempDirComps)}
InStaging(m) == m \in StagedMembers
TopName(m) == TargetOf(m)[Len(TempDirComps) + 1][1]
ConfEntryMembers ==
    {m \in MemberNames :
        /\ Len(TargetOf(m)) = Len(UnboundDirComps) + 1
        /\ IsWithin(TargetOf(m), UnboundDirComps)
        /\ \E n \in Names : TargetOf(m)[Len(TargetOf(m))] = <<n>>}
IsConfEntry(m) == m \in ConfEntryMembers
ConfName(m) == TargetOf(m)[Len(TargetOf(m))][1]
\* the members on which _safe_extract raises
RejectedMembers == {m \in MemberNames : SafeExtractRejects(m, TempDirComps)}

\* tar.extractall(dest) of the members D: each is written at its resolved target (the
\* interpreters setup.py names, Python 3.7 to 3.11, extract without a filter)
ExtractStaging(stg, members, D) ==
    [n \in Names |->
        IF \E m \in D : InStaging(m) /\ TopName(m) = n
        THEN members[CHOOSE m \in D : InStaging(m) /\ TopName(m) = n]
        ELSE stg[n]]
ExtractConf(c, members, D) ==
    [n \in Names |->
        IF \E m \in D : ~InStaging(m) /\ IsConfEntry(m) /\ ConfName(m) = n
        THEN members[CHOOSE m \in D : ~InStaging(m) /\ IsConfEntry(m) /\ ConfName(m) = n]
        ELSE c[n]]
ExtractOutside(out, D) ==
    out \cup {PathStr(TargetOf(m)) : m \in {x \in D : ~InStaging(x) /\ ~IsConfEntry(x)}}

\* the loop over temp_dir.iterdir(): the entries M are moved over the config directory
MoveInto(c, stg, M) == [n \in Names |-> IF n \in M THEN stg[n] ELSE c[n]]
MoveOutOf(stg, M) == [n \in Names |-> IF n \in M THEN Absent ELSE stg[n]]
Staged(stg) == {n \in Names : stg[n] # Absent}

RestoreFaults == {"none", "open", "extract", "move", "perms"}

\* the entries of the staging directory stg that no member of the archive made
Strays(stg, members) ==
    Staged(stg) \ {TopName(m) : m \in {x \in DOMAIN members : InStaging(x)}}

\* what the call returned and did, for the properties below; strays: the entries a
\* restore that ran through moved into the configuration directory though the
\* archive does not hold them
RestoreResult(res, fault, fromBackup, src, members, perms, restarted) ==
    [op |-> "restore", result |-> res, fault |-> fault, fromBackup |-> fromBackup, src |-> src,
     strays |-> IF res = "ok"
                THEN Strays(ExtractStaging(staging, members, DOMAIN members), members)
                ELSE {},
     escaping |-> \E m \in DOMAIN members : ~InStaging(m),
     emptyBefore |-> conf = EmptyDir /\ staging = EmptyDir,
     confChanged |-> conf' # conf, wroteOutside |-> outside' # outside,
     perms |-> perms, restarted |-> restarted]

RestoreSpecificBackup(members, fromBackup, src, fault) ==
    LET all == DOMAIN members
    IN
    /\ UNCHANGED <<archives, origin, now>>
    /\ IF fault = "open"
       THEN \* tarfile.open raises: temp_dir was made, nothing else happened
            /\ stagingExists' = TRUE
            /\ UNCHANGED <<conf, staging, outside>>
            /\ last' = RestoreResult("failed", fault, fromBackup, src, members, FALSE, FALSE)
       ELSE IF all \cap RejectedMembers # {}
       THEN \* _safe_extract raises ValueError before extractall
            /\ stagingExists' = TRUE
            /\ UNCHANGED <<conf, staging, outside>>
            /\ last' = RestoreResult("security", "none", fromBackup, src, members, FALSE, FALSE)
       ELSE IF fault = "extract"
       THEN \* extractall raises part-way (a damaged archive)
            \E D \in SUBSET all :
                /\ D # all
                /\ stagingExists' = TRUE
                /\ staging' = ExtractStaging(staging, members, D)
                /\ conf' = ExtractConf(conf, members, D)
                /\ outside' = ExtractOutside(outside, D)
                /\ last' = RestoreResult("failed", fault, fromBackup, src, members, FALSE, FALSE)
       ELSE LET stg == ExtractStaging(staging, members, all)
                c1 == ExtractConf(conf, members, all)
            IN  /\ outside' = ExtractOutside(outside, all)
                /\ IF fault = "move"
                   THEN \* an entry cannot be replaced or moved: the loop stops there
                        \E M \in SUBSET Staged(stg) : \E f \in Staged(stg) \ M :
                          \E removed \in BOOLEAN :
                            /\ stagingExists' = TRUE
                            /\ conf' = [MoveInto(c1, stg, M) EXCEPT
                                            ![f] = IF removed THEN Absent ELSE @]
                            /\ staging' = MoveOutOf(stg, M)
                            /\ last' = RestoreResult("failed", fault, fromBackup, src, members,
                                                     FALSE, FALSE)
                   ELSE /\ conf' = MoveInto(c1, stg, Staged(stg))
                        /\ staging' = EmptyDir
                        /\ stagingExists' = FALSE
                        /\ IF fault = "perms"
                           THEN \* ConfigManager() raises (no template directory)
                                last' = RestoreResult("failed", fault, fromBackup, src, members,
                                                      FALSE, FALSE)
                           ELSE last' = RestoreResult("ok", "none", fromBackup, src, members,
                                                      TRUE, TRUE)

\* archives an operator can hand to restore_specific_backup besides those create_backup made
CraftedArchives ==
    {[m \in D |-> 1] : D \in {
        {PlainMember("unbound.conf")},
        {SiblingMember},
        {SiblingMember, PlainMember("root.key")},
        {ParentMember, PlainMember("root.key")},
        {AbsoluteMember},
        {ConfEscapeMember, PlainMember("root.key")} }}

Restore ==
    \E fault \in RestoreFaults :
        \/ \E a \in DOMAIN archives : RestoreSpecificBackup(archives[a], TRUE, origin[a], fault)
        \/ \E members \in CraftedArchives : RestoreSpecificBackup(members, FALSE, EmptyDir, fault)

(***************************************************************************)
(* list_backups and cleanup_old_backups                                    *)
(***************************************************************************)
\* sorted(BACKUP_DIR.glob("backup_*.tar.gz"), reverse=True)
RECURSIVE SortedDesc(_)
SortedDesc(S) ==
    IF S = {} THEN <<>>
    ELSE LET top == CHOOSE a \in S : \A b \in S \ {a} : NameLess(b, a)
         IN  <<top>> \o SortedDesc(S \ {top})

ListBackups == SortedDesc(DOMAIN archives)

ToRemoveHead(backups, keep) ==
    IF Len(backups) <= keep THEN {}
    ELSE {backups[i] : i \in 1..(Len(backups) - keep)}
\* backups[keep:]
ToRemove(backups, keep) ==
    IF Len(backups) <= keep THEN {}
    ELSE {backups[i] : i \in (keep + 1)..Len(backups)}

CleanupOldBackups(keep) ==
    LET gone == ToRemove(ListBackups, keep)
        left == DOMAIN archives \ gone
    IN  /\ archives' = [a \in left |-> archives[a]]
        /\ origin' = [a \in left |-> origin[a]]
        /\ last' = [op |-> "cleanup", keep |-> keep, before |-> DOMAIN archives]
        /\ UNCHANGED <<conf, stagingExists, staging, outside, now>>

\* the operator (or another tool) edits, adds or deletes an entry of the config directory
EditConf ==
    \E n \in Names : \E c \in 0..MaxContent :
        /\ conf[n] # c
        /\ conf' = [conf EXCEPT ![n] = c]
        /\ last' = NoLast
        /\ UNCHANGED <<archives, origin, stagingExists, staging, outside, now>>


(***************************************************************************)
(* ConfigManager.create_forwarding_config                                  *)
(***************************************************************************)
DnsPort == 53
TlsPort == 853
Ports == {DnsPort, TlsPort}
\* a server dictionary: "port" may be missing, "hostname" may be None (here "")
Servers ==
    [ip : {"1.1.1.1", "9.9.9.9"}, hasPort : {TRUE}, port : Ports,
     hostname : {"", "dns.example"}, ipv6 : BOOLEAN]
    \cup [ip : {"1.1.1.1", "9.9.9.9"}, hasPort : {FALSE}, port : {0},
          hostname : {"", "dns.example"}, ipv6 : BOOLEAN]
RECURSIVE ServerLists(_)
ServerLists(n) ==
    IF n = 0 THEN {<<>>}
    ELSE LET shorter == ServerLists(n - 1)
         IN shorter \cup {Append(q, x) : q \in shorter, x \in Servers}
Providers == [key : {"none", "provider"}, encrypted : BOOLEAN, servers : ServerLists(MaxServers)]

\* str(port) in an f-string: the decimal digits
Digit(d) == CASE d = 0 -> "0" [] d = 1 -> "1" [] d = 2 -> "2" [] d = 3 -> "3" [] d = 4 -> "4"
              [] d = 5 -> "5" [] d = 6 -> "6" [] d = 7 -> "7" [] d = 8 -> "8" [] d = 9 -> "9"
RECURSIVE Decimal(_)
Decimal(n) == IF n < 10 THEN <<Digit(n)>> ELSE Append(Decimal(n \div 10), Digit(n % 10))

\* provider.get("key") == "none" or not provider.get("servers"), by the key alone
NoForwardingByKey(prov) == prov.key = "none"
\* provider.get("key") == "none" or not provider.get("servers")
NoForwarding(prov) == prov.key = "none" \/ prov.servers = <<>>

\* port = server.get("port", 853 if is_encrypted else 53)
PortOf(server, is_encrypted) ==
    IF server.hasPort THEN server.port
    ELSE IF is_encrypted THEN TlsPort ELSE DnsPort

AddrPrefix == "    forward-addr: "
\* the forward-addr line of one server
ForwardAddr(server, is_encrypted) ==
    LET port == PortOf(server, is_encrypted)
    IN IF is_encrypted /\ server.hostname # ""
       THEN <<AddrPrefix, server.ip, "@">> \o Decimal(port) \o <<"#", server.hostname>>
       ELSE IF port # DnsPort
            THEN <<AddrPrefix, server.ip, "@">> \o Decimal(port)
            ELSE <<AddrPrefix, server.ip>>

\* for server in servers: ... lines.append(...), with no server skipped
RECURSIVE ServerLinesAll(_, _)
ServerLinesAll(servers, is_encrypted) ==
    IF servers = <<>> THEN <<>>
    ELSE <<ForwardAddr(Head(servers), is_encrypted)>>
            \o ServerLinesAll(Tail(servers), is_encrypted)

\* for server in servers: if is_ipv6: continue ... lines.append(...)
RECURSIVE ServerLines(_, _)
ServerLines(servers, is_encrypted) ==
    IF servers = <<>> THEN <<>>
    ELSE (IF Head(servers).ipv6 THEN <<>>
          ELSE <<ForwardAddr(Head(servers), is_encrypted)>>)
            \o ServerLines(Tail(servers), is_encrypted)

TlsLine == <<"    forward-tls-upstream: yes">>
HeaderLines(is_encrypted) ==
    << <<"# DNS Forwarding Configuration">>,
       <<"# Provider: Custom">>,
       <<"# Encrypted: ", IF is_encrypted THEN "Yes (DNS-over-TLS)" ELSE "No">>,
       <<"#">>,
       <<"# Generated by Unbound Manager">>,
       <<>>,
       <<"forward-zone:">>,
       <<"    name: \".\"">> >>

\* lines, as written to forward.conf
ForwardLines(prov) ==
    HeaderLines(prov.encrypted)
        \o (IF prov.encrypted THEN <<TlsLine>> ELSE <<>>)
        \o ServerLines(prov.servers, prov.encrypted)

NoFile == [exists |-> FALSE, lines |-> <<>>]
OldFile == [exists |-> TRUE, lines |-> << <<"# DNS Forwarding Configuration">> >>]

ForwardIdle ==
    /\ provider = [key |-> "none", encrypted |-> FALSE, servers |-> <<>>]
    /\ forwardConf = NoFile
    /\ calls = 0
    /\ flast = [op |-> "none"]

ForwardInit ==
    /\ provider \in Providers
    /\ forwardConf \in {NoFile, OldFile}
    /\ calls = 0
    /\ flast = [op |-> "none"]

\* create_forwarding_config(provider)
CreateForwardingConfig ==
    /\ calls < MaxCalls
    /\ calls' = calls + 1
    /\ forwardConf' = IF NoForwarding(provider) THEN NoFile
                      ELSE [exists |-> TRUE, lines |-> ForwardLines(provider)]
    /\ flast' = [op |-> "create_forwarding_config", before |-> forwardConf,
                 unlinked |-> NoForwarding(provider) /\ forwardConf.exists]
    /\ UNCHANGED provider
    /\ UNCHANGED <<backupVars, wfVars, qeVars, restVars>>

(***************************************************************************)
(* ConfigManager.quick_edit_config on conf.d/server.conf.                  *)
(*                                                                         *)
(* A string is the sequence of its tokens.  The file is content.split("\n"):*)
(* one record per line, with the line's leading spaces, the key before the *)
(* colon and the text after the colon and the white space following it.    *)
(* Lines are well formed: a key with a colon has text on the same line, so *)
(* that "\s*" of the patterns never runs into the next line.               *)
(***************************************************************************)
\* editable_params["server.conf"], in the order of the dictionary: a string parameter,
\* a numeric one and a boolean one
EditableParams == <<"interface", "verbosity", "do-ip6">>
ParamSet == {EditableParams[i] : i \in DOMAIN EditableParams}
NumericParams == {"verbosity"}
BooleanParams == {"do-ip6"}

Quote == "\""
Space == " "
NotSet == <<"not set">>
AppendIndent == 4

\* the text a well-formed file has after "<key>:"
TextsOf(key) ==
    CASE key = "interface" -> {<<"eth0">>, <<Quote, "eth0", Quote>>}
      [] key = "verbosity" -> {<<"1">>, <<"3">>}
      [] key = "do-ip6" -> {<<"yes">>, <<"no">>, <<"Yes">>, <<"yes", Space, "# v6">>}
      [] OTHER -> {<<>>}
BlankLine == [indent |-> 0, key |-> "", text |-> <<>>]
\* the "server:" clause header
ClauseLine == [indent |-> 0, key |-> "server", text |-> <<>>]
ParamLines == UNION {{[indent |-> AppendIndent, key |-> k, text |-> t] : t \in TextsOf(k)} :
                        k \in ParamSet}
Lines == {BlankLine, ClauseLine} \cup ParamLines
RECURSIVE SeqsUpTo(_, _)
SeqsUpTo(S, n) ==
    IF n = 0 THEN {<<>>}
    ELSE LET shorter == SeqsUpTo(S, n - 1)
         IN shorter \cup {Append(q, x) : q \in shorter, x \in S}
FileContents == SeqsUpTo(Lines, MaxLines) \ {<<>>}

\* str.strip(chars), on tokens
RECURSIVE LStrip(_, _)
LStrip(str, chars) ==
    IF str # <<>> /\ Head(str) \in chars THEN LStrip(Tail(str), chars) ELSE str
RECURSIVE RStrip(_, _)
RStrip(str, chars) ==
    IF str # <<>> /\ str[Len(str)] \in chars
    THEN RStrip(SubSeq(str, 1, Len(str) - 1), chars)
    ELSE str
Strip(str, chars) == RStrip(LStrip(str, chars), chars)
\* str.lower(), on tokens
LowerToken(t) == IF t = "Yes" THEN "yes" ELSE t
Lower(str) == [i \in DOMAIN str |-> LowerToken(str[i])]

\* the lines that rf'^\s*{re.escape(param)}:\s*(.+)$' matches
MatchingLines(content, param) == {i \in DOMAIN content : content[i].key = param}
FirstMatch(content, param) ==
    CHOOSE i \in MatchingLines(content, param) :
        \A j \in MatchingLines(content, param) : i <= j

\* current_values[param]: match.group(1).strip().strip('"'), or "not set"
CurrentValue(content, param) ==
    IF MatchingLines(content, param) = {}
    THEN NotSet
    ELSE Strip(Strip(content[FirstMatch(content, param)].text, {Space}), {Quote})

\* what the operator does at a prompt: presses Enter, or types something
Enter == [enter |-> TRUE, typed |-> <<>>]
Typed(str) == [enter |-> FALSE, typed |-> str]
TypedValues(param) ==
    CASE param = "interface" -> {<<"lo">>, <<Quote, "lo", Quote>>}
      [] param = "verbosity" -> {<<"3">>}
      [] param = "do-ip6" -> {<<"y">>, <<"n">>}
AnswersFor(param) == {Enter} \cup {Typed(v) : v \in TypedValues(param)}
Answers ==
    {a \in [ParamSet -> UNION {AnswersFor(q) : q \in ParamSet}] :
        \A q \in ParamSet : a[q] \in AnswersFor(q)}

\* Prompt.ask("New value", default=current), Prompt.ask("New value") and
\* Prompt.ask("New value", default=""): Enter returns the default, or "" without one
PromptAsk(current, answer) ==
    IF answer.enter
    THEN (IF current # NotSet THEN current ELSE <<>>)
    ELSE answer.typed

\* current_bool, Confirm.ask(default=current_bool) and new_str
CurrentBool(current) == IF current # NotSet THEN Lower(current) = <<"yes">> ELSE FALSE
ConfirmAsk(default, answer) == IF answer.enter THEN default ELSE answer.typed = <<"y">>
NewStr(current, answer) ==
    IF ConfirmAsk(CurrentBool(current), answer) THEN <<"yes">> ELSE <<"no">>

\* the value the loop over the parameters arrives at, and whether it enters changes
NewValue(content, param, answer) ==
    IF param \in BooleanParams
    THEN NewStr(CurrentValue(content, param), answer)
    ELSE PromptAsk(CurrentValue(content, param), answer)
IsChange(content, param, answer) ==
    IF param \in BooleanParams
    THEN NewValue(content, param, answer) # CurrentValue(content, param)
    ELSE /\ NewValue(content, param, answer) # <<>>
         /\ NewValue(content, param, answer) # CurrentValue(content, param)
Changes(content, answers) == {q \in ParamSet : IsChange(content, q, answers[q])}

\* re.sub(rf'^(\s*){param}:\s*.+$', rf'\1{param}: {value}', new_content), or
\* new_content += f"\n    {param}: {value}"
ApplyChange(content, param, value) ==
    IF MatchingLines(content, param) # {}
    THEN [i \in DOMAIN content |->
            IF content[i].key = param THEN [content[i] EXCEPT !.text = value]
            ELSE content[i]]
    ELSE Append(content, [indent |-> AppendIndent, key |-> param, text |-> value])

\* for param, value in changes.items(): ...
RECURSIVE ApplyChanges(_, _, _, _)
ApplyChanges(content, before, answers, k) ==
    IF k > Len(EditableParams) THEN content
    ELSE LET param == EditableParams[k]
         IN ApplyChanges(
                IF param \in Changes(before, answers)
                THEN ApplyChange(content, param, NewValue(before, param, answers[param]))
                ELSE content,
                before, answers, k + 1)

QuickEditInit ==
    /\ serverConf \in FileContents
    /\ confBackups = <<>>
    /\ edits = 0
    /\ qlast = [op |-> "none"]

QuickEditOnly ==
    /\ serverConf = <<BlankLine>>
    /\ confBackups = <<>>
    /\ edits = 0
    /\ qlast = [op |-> "none"]

QuickEditIdle == QuickEditOnly /\ ForwardIdle

\* quick_edit_config("server.conf"): the prompts, "Apply these changes?", the backup
\* copy, the write
QuickEditConfig ==
    \E answers \in Answers : \E apply \in BOOLEAN :
        LET changes == Changes(serverConf, answers)
            written == changes # {} /\ apply
        IN /\ edits < MaxEdits
           /\ edits' = edits + 1
           /\ serverConf' = IF written THEN ApplyChanges(serverConf, serverConf, answers, 1)
                            ELSE serverConf
           /\ confBackups' = IF written
                             THEN [t \in DOMAIN confBackups \cup {now} |->
                                    IF t = now THEN serverConf ELSE confBackups[t]]
                             ELSE confBackups
           /\ qlast' = [op |-> "quick_edit", before |-> serverConf, answers |-> answers,
                        apply |-> apply, backupsBefore |-> confBackups]
           /\ UNCHANGED <<backupVars, wfVars, fwVars, restVars>>


(***************************************************************************)
(* Workflows.  A workflow runs statement by statement; every command it    *)
(* issues and every file-system operation it performs is appended to log.  *)
(***************************************************************************)
NoArchive == [ts |-> 0, desc |-> ""]
Ev(cmd, ok) == [cmd |-> cmd, ok |-> ok]

WfIdle ==
    /\ wf = "idle"
    /\ pc = "idle"
    /\ log = <<>>
    /\ service = "active"
    /\ binary = "old"
    /\ curKnown = FALSE
    /\ version = "none"
    /\ dlOk = FALSE
    /\ compOk = FALSE
    /\ bpath = NoArchive
    /\ sel = NoArchive
    /\ package = "installed"

\* the backup manager, the workflows, quick edit and the forwarding file at rest
CoreIdle ==
    /\ BackupInit
    /\ conf = EmptyDir
    /\ WfIdle
    /\ QuickEditIdle

\* run_command(..., check=True): a failing command raises
RaisesOnFailureUnchecked(ok) == FALSE
RaisesOnFailure(ok) == ~ok

\* one statement of a workflow that touches neither the backup manager's files nor the
\* service or the binary
Goto(from, to, ev) ==
    /\ pc = from
    /\ pc' = to
    /\ log' = log \o ev

(***************************************************************************)
(* UnboundInstaller.update_unbound                                         *)
(***************************************************************************)
\* SubMenu.RETURN, the value select_version returns for the answer "r"
ReturnChoice == "RETURN"
\* what select_version returns: a version other than the one installed, the one
\* installed, or the sentinel
Versions == {"newer", "same", ReturnChoice}

\* result = run_command(["unbound", "-V"], check=False), any exception passed over
UpdateStart ==
    /\ wf = "idle"
    /\ wf' = "update"
    /\ pc' = "u_backup"
    /\ curKnown' \in BOOLEAN
    /\ UNCHANGED <<restVars, qeVars, fwVars, log, service, binary, version, dlOk, compOk,
                   bpath,
                   sel, package>>
    /\ UNCHANGED backupVars

\* backup_path = backup_manager.create_backup("before_update")
UpdateBackup ==
    /\ wf = "update"
    /\ Goto("u_backup", "u_select", <<Ev("create_backup", TRUE)>>)
    /\ CreateBackup("before_update")
    /\ bpath' = [ts |-> now, desc |-> "before_update"]
    /\ UNCHANGED <<restVars, qeVars, fwVars, wf, service, binary, curKnown, version,
                   dlOk, compOk,
                   sel, package>>

\* "version in current_version" for what select_version returned: no test singles the
\* sentinel out.  A sentinel that is text is not part of the installed version's text;
\* one that is not text makes the "in" raise TypeError, outside the try statement.
SameVersionTest(v, isText) ==
    IF v = ReturnChoice THEN (IF isText THEN "differs" ELSE "type_error")
    ELSE IF v = "same" THEN "same" ELSE "differs"

\* version = self.select_version(); the same-version prompt
UpdateSelect ==
    /\ wf = "update"
    /\ pc = "u_select"
    /\ \E v \in Versions : \E goOn \in BOOLEAN : \E isText \in BOOLEAN :
        LET test == IF curKnown THEN SameVersionTest(v, isText) ELSE "differs"
        IN /\ version' = v
           /\ log' = Append(log, Ev("select_version", TRUE))
                        \o (IF test = "type_error" THEN <<Ev("type_error", FALSE)>> ELSE <<>>)
           /\ pc' = IF test = "type_error" \/ (test = "same" /\ ~goOn)
                    THEN "done" ELSE "u_requests"
    /\ UNCHANGED <<restVars, qeVars, fwVars, wf, service, binary, curKnown, dlOk, compOk,
                   bpath,
                   sel, package>>
    /\ UNCHANGED backupVars

\* the download site holds a tarball "unbound-<v>.tar.gz": none is named by the
\* sentinel, so requests and wget fail for it, and what curl (run without -f)
\* may leave in its place is no archive
Released(v) == v # ReturnChoice

\* method 1: requests.get; any exception leads to method 2
UpdateRequests ==
    /\ wf = "update"
    /\ pc = "u_requests"
    /\ \E ok \in BOOLEAN :
        /\ ok => Released(version)
        /\ log' = Append(log, Ev("requests_get", ok))
        /\ dlOk' = ok
        /\ pc' = IF ok THEN "u_extract" ELSE "u_wget"
    /\ UNCHANGED <<restVars, qeVars, fwVars, wf, service, binary, curKnown, version,
                   compOk, bpath,
                   sel, package>>
    /\ UNCHANGED backupVars

\* the outcomes of run_command(..., check=False): exit status 0, another exit status,
\* or an exception (timeout, command not found)
Outcomes == {"zero", "nonzero", "raised"}
\* the exception a step lets through to the handler of update_unbound
Raised(raises) == IF raises THEN <<Ev("exception", FALSE)>> ELSE <<>>

\* method 2: wget, inside the handler of method 1's exception
UpdateWget ==
    /\ wf = "update"
    /\ pc = "u_wget"
    /\ \E o \in Outcomes :
        /\ o = "zero" => Released(version)
        /\ log' = Append(log, Ev("wget", o = "zero")) \o Raised(o = "raised")
        /\ dlOk' = (o = "zero")
        /\ pc' = CASE o = "zero" -> "u_extract"
                   [] o = "nonzero" -> "u_curl"
                   [] OTHER -> "u_failed"
    /\ UNCHANGED <<restVars, qeVars, fwVars, wf, service, binary, curKnown, version,
                   compOk, bpath,
                   sel, package>>
    /\ UNCHANGED backupVars

\* method 3: curl; with no method left the workflow returns
UpdateCurl ==
    /\ wf = "update"
    /\ pc = "u_curl"
    /\ \E o \in Outcomes :
        /\ log' = Append(log, Ev("curl", o = "zero")) \o Raised(o = "raised")
        /\ dlOk' = (o = "zero")
        /\ pc' = CASE o = "zero" -> "u_extract"
                   [] o = "nonzero" -> "done"
                   [] OTHER -> "u_failed"
    /\ UNCHANGED <<restVars, qeVars, fwVars, wf, service, binary, curKnown, version,
                   compOk, bpath,
                   sel, package>>
    /\ UNCHANGED backupVars

\* run_command(["tar", "-xzf", ...]) and the check that the source directory exists
UpdateExtract ==
    /\ wf = "update"
    /\ pc = "u_extract"
    /\ \E ok \in BOOLEAN : \E dirExists \in BOOLEAN :
        /\ ok => Released(version)
        /\ log' = Append(log, Ev("tar_extract", ok /\ dirExists))
                    \o Raised(RaisesOnFailure(ok))
        /\ pc' = IF RaisesOnFailure(ok) THEN "u_failed"
                 ELSE IF ~dirExists THEN "done"
                 ELSE "u_configure"
    /\ UNCHANGED <<restVars, qeVars, fwVars, wf, service, binary, curKnown, version,
                   dlOk, compOk,
                   bpath, sel, package>>
    /\ UNCHANGED backupVars

\* run_command(configure_args, cwd=source_dir, timeout=120)
UpdateConfigure ==
    /\ wf = "update"
    /\ pc = "u_configure"
    /\ \E ok \in BOOLEAN :
        /\ log' = Append(log, Ev("configure", ok))
        /\ pc' = IF RaisesOnFailure(ok) THEN "u_failed" ELSE "u_make"
    /\ UNCHANGED <<restVars, qeVars, fwVars, wf, service, binary, curKnown, version,
                   dlOk, compOk,
                   bpath, sel, package>>
    /\ UNCHANGED backupVars

\* run_command(["make", "-jN"]); compilation_successful = True
UpdateMake ==
    /\ wf = "update"
    /\ pc = "u_make"
    /\ \E ok \in BOOLEAN :
        /\ log' = Append(log, Ev("make", ok))
        /\ compOk' = ~RaisesOnFailure(ok)
        /\ pc' = IF RaisesOnFailure(ok) THEN "u_failed" ELSE "u_stop"
    /\ UNCHANGED <<restVars, qeVars, fwVars, wf, service, binary, curKnown, version,
                   dlOk, bpath,
                   sel, package>>
    /\ UNCHANGED backupVars

\* run_command(["systemctl", "stop", UNBOUND_SERVICE])
UpdateStop ==
    /\ wf = "update"
    /\ pc = "u_stop"
    /\ \E ok \in BOOLEAN :
        /\ log' = Append(log, Ev("systemctl_stop", ok))
        /\ service' = IF ok THEN "inactive" ELSE service
        /\ pc' = IF RaisesOnFailure(ok) THEN "u_failed" ELSE "u_install"
    /\ UNCHANGED <<restVars, qeVars, fwVars, wf, binary, curKnown, version, dlOk, compOk,
                   bpath,
                   sel, package>>
    /\ UNCHANGED backupVars

\* run_command(["make", "install"]); a failing install may have replaced the binary
UpdateInstall ==
    /\ wf = "update"
    /\ pc = "u_install"
    /\ \E ok \in BOOLEAN : \E replaced \in BOOLEAN :
        /\ ok => replaced
        /\ log' = Append(log, Ev("make_install", ok))
        /\ binary' = IF replaced THEN "new" ELSE binary
        /\ pc' = IF RaisesOnFailure(ok) THEN "u_failed" ELSE "u_ldconfig"
    /\ UNCHANGED <<restVars, qeVars, fwVars, wf, service, curKnown, version, dlOk,
                   compOk, bpath,
                   sel, package>>
    /\ UNCHANGED backupVars

\* run_command(["ldconfig"]); shutil.rmtree(temp_dir)
UpdateLdconfig ==
    /\ wf = "update"
    /\ pc = "u_ldconfig"
    /\ \E ok \in BOOLEAN :
        /\ log' = Append(log, Ev("ldconfig", ok))
        /\ pc' = IF RaisesOnFailure(ok) THEN "u_failed" ELSE "u_start"
    /\ UNCHANGED <<restVars, qeVars, fwVars, wf, service, binary, curKnown, version,
                   dlOk, compOk,
                   bpath, sel, package>>
    /\ UNCHANGED backupVars

\* run_command(["systemctl", "start", UNBOUND_SERVICE]); time.sleep(3): a unit that was
\* started may have stopped again by the time it is looked at
UpdateStartService ==
    /\ wf = "update"
    /\ pc = "u_start"
    /\ \E ok \in BOOLEAN : \E up \in BOOLEAN :
        /\ up => ok
        /\ log' = Append(log, Ev("systemctl_start", ok))
        /\ service' = IF up THEN "active" ELSE "inactive"
        /\ pc' = IF RaisesOnFailure(ok) THEN "u_failed" ELSE "u_check"
    /\ UNCHANGED <<restVars, qeVars, fwVars, wf, binary, curKnown, version, dlOk, compOk,
                   bpath,
                   sel, package>>
    /\ UNCHANGED backupVars

\* the same with a message in place of the raise
AfterStartNoRaise(active) == IF active THEN "u_dig" ELSE "done"
\* if check_service_status(UNBOUND_SERVICE): ... else: raise Exception(...)
AfterStart(active) == IF active THEN "u_dig" ELSE "u_failed"
UpdateCheckStatus ==
    /\ wf = "update"
    /\ Goto("u_check", AfterStart(service = "active"),
            <<Ev("is_active", service = "active")>>)
    /\ UNCHANGED <<restVars, qeVars, fwVars, wf, service, binary, curKnown, version,
                   dlOk, compOk,
                   bpath, sel, package>>
    /\ UNCHANGED backupVars

\* run_command(["dig", "@127.0.0.1", "+short", "example.com"], check=False, timeout=5):
\* an answer, no answer (a warning is printed), or an exception (the timeout)
UpdateDig ==
    /\ wf = "update"
    /\ pc = "u_dig"
    /\ \E o \in Outcomes :
        /\ log' = Append(log, Ev("dig", o = "zero")) \o Raised(o = "raised")
        /\ pc' = IF o = "raised" THEN "u_failed" ELSE "done"
    /\ UNCHANGED <<restVars, qeVars, fwVars, wf, service, binary, curKnown, version,
                   dlOk, compOk,
                   bpath, sel, package>>
    /\ UNCHANGED backupVars

\* restart_service(UNBOUND_SERVICE) at the end of a restore that got that far
ServiceAfterRestore(up) ==
    IF last'.restarted THEN (IF up THEN "active" ELSE "inactive") ELSE service
RestoreEvents ==
    <<Ev("restore", last'.result = "ok")>>
        \o (IF last'.restarted THEN <<Ev("systemctl_restart", TRUE)>> ELSE <<>>)

\* except Exception: backup_manager.restore_specific_backup(backup_path)
UpdateFailedRestore ==
    /\ wf = "update"
    /\ pc = "u_failed"
    /\ \E fault \in RestoreFaults :
        RestoreSpecificBackup(archives[bpath], TRUE, origin[bpath], fault)
    /\ \E up \in BOOLEAN : service' = ServiceAfterRestore(up)
    /\ log' = log \o RestoreEvents
    /\ pc' = "u_failed_start"
    /\ UNCHANGED <<restVars, qeVars, fwVars, wf, binary, curKnown, version, dlOk, compOk,
                   bpath,
                   sel, package>>

\* except Exception: run_command(["systemctl", "start", UNBOUND_SERVICE])
UpdateFailedStart ==
    /\ wf = "update"
    /\ pc = "u_failed_start"
    /\ \E ok \in BOOLEAN : \E up \in BOOLEAN :
        /\ up => ok
        /\ log' = Append(log, Ev("systemctl_start", ok))
        /\ service' = IF service = "active" \/ up THEN "active" ELSE "inactive"
        /\ pc' = "done"
    /\ UNCHANGED <<restVars, qeVars, fwVars, wf, binary, curKnown, version, dlOk, compOk,
                   bpath,
                   sel, package>>
    /\ UNCHANGED backupVars

UpdateUnbound ==
    \/ UpdateStart
    \/ UpdateBackup
    \/ UpdateSelect
    \/ UpdateRequests
    \/ UpdateWget
    \/ UpdateCurl
    \/ UpdateExtract
    \/ UpdateConfigure
    \/ UpdateMake
    \/ UpdateStop
    \/ UpdateInstall
    \/ UpdateLdconfig
    \/ UpdateStartService
    \/ UpdateCheckStatus
    \/ UpdateDig
    \/ UpdateFailedRestore
    \/ UpdateFailedStart

(***************************************************************************)
(* BackupManager.restore_backup                                            *)
(***************************************************************************)
\* backups = self.list_backups(); the selection prompt ("r" and "q" return); the
\* confirmation prompt
RestoreStart ==
    /\ wf = "idle"
    /\ wf' = "restore"
    /\ \E choice \in DOMAIN archives \cup {NoArchive} : \E confirmed \in BOOLEAN :
        /\ sel' = choice
        /\ pc' = IF choice # NoArchive /\ confirmed THEN "rs_backup" ELSE "done"
    /\ UNCHANGED <<restVars, qeVars, fwVars, log, service, binary, curKnown, version,
                   dlOk, compOk,
                   bpath, package>>
    /\ UNCHANGED backupVars

\* self.create_backup("before_restore")
RestoreBackup ==
    /\ wf = "restore"
    /\ Goto("rs_backup", "rs_restore", <<Ev("create_backup", TRUE)>>)
    /\ CreateBackup("before_restore")
    /\ bpath' = [ts |-> now, desc |-> "before_restore"]
    /\ UNCHANGED <<restVars, qeVars, fwVars, wf, service, binary, curKnown, version,
                   dlOk, compOk,
                   sel, package>>

\* self.restore_specific_backup(selected_backup)
RestoreSelected ==
    /\ wf = "restore"
    /\ pc = "rs_restore"
    /\ \E fault \in RestoreFaults :
        RestoreSpecificBackup(archives[sel], TRUE, origin[sel], fault)
    /\ \E up \in BOOLEAN : service' = ServiceAfterRestore(up)
    /\ log' = log \o RestoreEvents
    /\ pc' = "done"
    /\ UNCHANGED <<restVars, qeVars, fwVars, wf, binary, curKnown, version, dlOk, compOk,
                   bpath,
                   sel, package>>

RestoreBackupWorkflow ==
    \/ RestoreStart
    \/ RestoreBackup
    \/ RestoreSelected

(***************************************************************************)
(* ConfigManager.reset_to_defaults                                         *)
(***************************************************************************)
\* prompt_yes_no("Are you sure you want to reset to default configuration?")
ResetStart ==
    /\ wf = "idle"
    /\ wf' = "reset"
    /\ \E confirmed \in BOOLEAN : pc' = IF confirmed THEN "rd_backup" ELSE "done"
    /\ UNCHANGED <<restVars, qeVars, fwVars, log, service, binary, curKnown, version,
                   dlOk, compOk,
                   bpath, sel,
                   package>>
    /\ UNCHANGED backupVars

\* the reset without its backup_manager.create_backup("before_reset")
ResetNoBackup ==
    /\ wf = "reset"
    /\ Goto("rd_backup", "rd_create", <<>>)
    /\ UNCHANGED <<restVars, qeVars, fwVars, wf, service, binary, curKnown, version,
                   dlOk, compOk,
                   bpath, sel,
                   package>>
    /\ UNCHANGED backupVars

\* backup_manager.create_backup("before_reset")
ResetBackup ==
    /\ wf = "reset"
    /\ Goto("rd_backup", "rd_create", <<Ev("create_backup", TRUE)>>)
    /\ CreateBackup("before_reset")
    /\ bpath' = [ts |-> now, desc |-> "before_reset"]
    /\ UNCHANGED <<restVars, qeVars, fwVars, wf, service, binary, curKnown, version,
                   dlOk, compOk,
                   sel, package>>

\* create_full_configuration(server_ip) renders unbound.conf (and the conf.d files) from
\* the templates; the rendered text depends on the server address
CreateFullConfiguration(c) ==
    /\ conf' = [conf EXCEPT !["unbound.conf"] = c]
    /\ last' = [op |-> "create_full_configuration"]
    /\ UNCHANGED <<archives, origin, stagingExists, staging, outside, now>>

\* server_ip = get_server_ip(); self.create_full_configuration(server_ip)
ResetCreate ==
    /\ wf = "reset"
    /\ Goto("rd_create", "done", <<Ev("create_full_configuration", TRUE)>>)
    /\ \E c \in Contents : CreateFullConfiguration(c)
    /\ UNCHANGED <<restVars, qeVars, fwVars, wf, service, binary, curKnown, version,
                   dlOk, compOk,
                   bpath, sel,
                   package>>

ResetToDefaults ==
    \/ ResetStart
    \/ ResetBackup
    \/ ResetCreate

(***************************************************************************)
(* UnboundInstaller.fix_existing_installation                              *)
(***************************************************************************)
FixStart ==
    /\ wf = "idle"
    /\ wf' = "fix"
    /\ pc' = "f_backup"
    /\ UNCHANGED <<restVars, qeVars, fwVars, log, service, binary, curKnown, version,
                   dlOk, compOk,
                   bpath, sel,
                   package>>
    /\ UNCHANGED backupVars

\* backup_manager.create_backup("before_fix")
FixBackup ==
    /\ wf = "fix"
    /\ Goto("f_backup", "f_dirs", <<Ev("create_backup", TRUE)>>)
    /\ CreateBackup("before_fix")
    /\ bpath' = [ts |-> now, desc |-> "before_fix"]
    /\ UNCHANGED <<restVars, qeVars, fwVars, wf, service, binary, curKnown, version,
                   dlOk, compOk,
                   sel, package>>

\* ensure_user_exists(); self.setup_directories(): useradd raises when it fails
FixDirectories ==
    /\ wf = "fix"
    /\ pc = "f_dirs"
    /\ \E ok \in BOOLEAN :
        /\ log' = Append(log, Ev("setup_directories", ok))
        /\ pc' = IF RaisesOnFailure(ok) THEN "done" ELSE "f_conf"
    /\ UNCHANGED <<restVars, qeVars, fwVars, wf, service, binary, curKnown, version,
                   dlOk, compOk,
                   bpath, sel,
                   package>>
    /\ UNCHANGED backupVars

\* if not UNBOUND_CONF.exists(): self.config_manager.create_full_configuration(server_ip)
FixConfiguration ==
    /\ wf = "fix"
    /\ pc = "f_conf"
    /\ pc' = "f_anchor"
    /\ IF conf["unbound.conf"] = Absent
       THEN /\ \E c \in Contents : CreateFullConfiguration(c)
            /\ log' = Append(log, Ev("create_full_configuration", TRUE))
       ELSE UNCHANGED <<backupVars, log>>
    /\ UNCHANGED <<restVars, qeVars, fwVars, wf, service, binary, curKnown, version,
                   dlOk, compOk,
                   bpath, sel,
                   package>>

\* if not (UNBOUND_DIR / "root.key").exists(): self.dnssec_manager.setup_trust_anchor()
FixTrustAnchor ==
    /\ wf = "fix"
    /\ pc = "f_anchor"
    /\ pc' = "f_perms"
    /\ IF conf["root.key"] = Absent
       THEN /\ \E c \in Contents : conf' = [conf EXCEPT !["root.key"] = c]
            /\ last' = [op |-> "setup_trust_anchor"]
            /\ log' = Append(log, Ev("setup_trust_anchor", TRUE))
            /\ UNCHANGED <<archives, origin, stagingExists, staging, outside, now>>
       ELSE UNCHANGED <<backupVars, log>>
    /\ UNCHANGED <<restVars, qeVars, fwVars, wf, service, binary, curKnown, version,
                   dlOk, compOk,
                   bpath, sel,
                   package>>

\* self.redis_manager.fix_redis_integration(); the systemd unit;
\* self.config_manager.fix_permissions(); run_command(["systemctl", "daemon-reload"])
FixPermissions ==
    /\ wf = "fix"
    /\ pc = "f_perms"
    /\ \E ok \in BOOLEAN :
        /\ log' = log \o <<Ev("fix_permissions", TRUE), Ev("daemon_reload", ok)>>
        /\ pc' = IF RaisesOnFailure(ok) THEN "done" ELSE "f_restart"
    /\ UNCHANGED <<restVars, qeVars, fwVars, wf, service, binary, curKnown, version,
                   dlOk, compOk,
                   bpath, sel,
                   package>>
    /\ UNCHANGED backupVars

\* run_command(["systemctl", "restart", REDIS_SERVICE]);
\* run_command(["systemctl", "restart", UNBOUND_SERVICE]); the diagnostics change nothing
FixRestart ==
    /\ wf = "fix"
    /\ pc = "f_restart"
    /\ \E ok \in BOOLEAN :
        /\ log' = Append(log, Ev("systemctl_restart", ok))
        /\ service' = IF ok THEN "active" ELSE "inactive"
    /\ pc' = "done"
    /\ UNCHANGED <<restVars, qeVars, fwVars, wf, binary, curKnown, version, dlOk, compOk,
                   bpath,
                   sel, package>>
    /\ UNCHANGED backupVars

FixExistingInstallation ==
    \/ FixStart
    \/ FixBackup
    \/ FixDirectories
    \/ FixConfiguration
    \/ FixTrustAnchor
    \/ FixPermissions
    \/ FixRestart

(***************************************************************************)
(* UnboundManagerCLI.uninstall_manager                                     *)
(***************************************************************************)
\* prompt_yes_no("Are you sure you want to uninstall?")
UninstallStart ==
    /\ wf = "idle"
    /\ wf' = "uninstall"
    /\ \E confirmed \in BOOLEAN : pc' = IF confirmed THEN "un_backup" ELSE "done"
    /\ UNCHANGED <<restVars, qeVars, fwVars, log, service, binary, curKnown, version,
                   dlOk, compOk,
                   bpath, sel,
                   package>>
    /\ UNCHANGED backupVars

\* backup_path = self.backup_manager.create_backup("before_uninstall")
UninstallBackup ==
    /\ wf = "uninstall"
    /\ Goto("un_backup", "un_pip", <<Ev("create_backup", TRUE)>>)
    /\ CreateBackup("before_uninstall")
    /\ bpath' = [ts |-> now, desc |-> "before_uninstall"]
    /\ UNCHANGED <<restVars, qeVars, fwVars, wf, service, binary, curKnown, version,
                   dlOk, compOk,
                   sel, package>>

\* run_command(["pip3", "uninstall", "-y", "unbound-manager"]), its exception printed;
\* sys.exit(0)
UninstallPip ==
    /\ wf = "uninstall"
    /\ pc = "un_pip"
    /\ \E ok \in BOOLEAN :
        /\ log' = Append(log, Ev("pip_uninstall", ok))
        /\ package' = IF ok THEN "removed" ELSE package
    /\ pc' = "done"
    /\ UNCHANGED <<restVars, qeVars, fwVars, wf, service, binary, curKnown, version,
                   dlOk, compOk,
                   bpath, sel>>
    /\ UNCHANGED backupVars

UninstallManager ==
    \/ UninstallStart
    \/ UninstallBackup
    \/ UninstallPip

WorkflowInit ==
    /\ conf \in [Names -> 0..MaxContent]
    /\ \E c0 \in [Names -> 0..MaxContent] :
        /\ archives = [a \in {[ts |-> 1, desc |-> ""]} |-> BackupMembers(c0)]
        /\ origin = [a \in {[ts |-> 1, desc |-> ""]} |-> c0]
    /\ stagingExists = FALSE
    /\ staging = EmptyDir
    /\ outside = {}
    /\ now = 1
    /\ last = NoLast
    /\ WfIdle
    /\ RestIdle
    /\ QuickEditIdle


BackupNext ==
    \/ CreateBackup("") /\ UNCHANGED <<wfVars, qeVars, fwVars, restVars>>
    \/ Restore /\ UNCHANGED <<wfVars, qeVars, fwVars, restVars>>
    \/ EditConf /\ UNCHANGED <<wfVars, qeVars, fwVars, restVars>>

BackupManagerInit ==
    /\ BackupInit
    /\ WfIdle
    /\ RestIdle
    /\ QuickEditIdle

SpecBackup == BackupManagerInit /\ [][BackupNext]_vars

RetentionInit ==
    /\ BackupInit
    /\ WfIdle
    /\ RestIdle
    /\ QuickEditIdle
    /\ conf = EmptyDir

RetentionNext ==
    \/ \E d \in {"", "before_restore"} : CreateBackup(d) /\ UNCHANGED <<wfVars, qeVars,
                                                                        fwVars, restVars>>
    \/ Tick /\ UNCHANGED <<wfVars, qeVars, fwVars, restVars>>
    \/ \E keep \in 0..MaxKeep : CleanupOldBackups(keep) /\ UNCHANGED <<wfVars, qeVars,
                                                                       fwVars, restVars>>

SpecRetention == RetentionInit /\ [][RetentionNext]_vars

(***************************************************************************)
(* Properties of the backup manager                                        *)
(***************************************************************************)
\* C1: restore_specific_backup of a readable archive with a member whose resolved
\* destination is not inside the staging directory returns the security error, writes
\* nothing outside the staging directory, leaves the config directory as it was, reapplies
\* no permissions and does not restart the service.
C1_EscapingArchiveRejected ==
    (last.op = "restore" /\ last.escaping /\ last.fault = "none") =>
        /\ last.result = "security"
        /\ ~last.wroteOutside
        /\ ~last.confChanged
        /\ ~last.perms
        /\ ~last.restarted

\* C5: an archive made by create_backup never holds the backups directory, and restoring
\* it into an empty config directory (nothing staged) gives back the entries and contents
\* the config directory had when the archive was made.
C5_BackupRoundTrip ==
    /\ \A a \in DOMAIN archives : PlainMember("backups") \notin DOMAIN archives[a]
    /\ (last.op = "restore" /\ last.fromBackup /\ last.emptyBefore
            /\ last.fault \in {"none", "perms"}) =>
          /\ conf = last.src
          /\ ~stagingExists

C5_Witness ==
    /\ last.op = "restore" /\ last.fromBackup /\ last.emptyBefore /\ last.result = "ok"
    /\ \A n \in Names : conf[n] # Absent
    /\ \E n1 \in Names : \E n2 \in Names : conf[n1] # conf[n2]

\* C6: cleanup_old_backups(keep=N) on M archives leaves all of them when M <= N, and
\* otherwise leaves exactly N, none of which has an older filename timestamp than a
\* deleted one.
C6_CleanupKeepsNewest ==
    last.op = "cleanup" =>
        LET before == last.before
            after == DOMAIN archives
        IN  /\ after \subseteq before
            /\ IF Cardinality(before) > last.keep
               THEN /\ Cardinality(after) = last.keep
                    /\ \A k \in after : \A r \in before \ after : r.ts <= k.ts
               ELSE after = before

C6_Witness ==
    /\ last.op = "cleanup"
    /\ last.keep >= 1
    /\ Cardinality(last.before) >= last.keep + 2
    /\ Cardinality(DOMAIN archives) = last.keep

\* C27 (as stated): whatever restores went before, failed ones among them, a
\* restore_specific_backup that returns True has moved into the configuration
\* directory only entries that are members of its archive, nothing an earlier
\* restore left in the staging directory, and the staging directory is gone when
\* it returns.
C27_OnlyArchiveMembersInstalled ==
    (last.op = "restore" /\ last.result = "ok") =>
        /\ last.strays = {}
        /\ ~stagingExists

(***************************************************************************)
(* Claims about the workflows                                              *)
(***************************************************************************)
HasEvent(e) == \E i \in DOMAIN log : log[i] = e
DownloadCmds == {"requests_get", "wget", "curl"}
BuildCmds == {"tar_extract", "configure", "make"}
\* what changes a configuration file, the installed binary or package, or the service
ChangeCmds == {"systemctl_stop", "make_install", "ldconfig", "systemctl_start",
               "systemctl_restart", "restore", "create_full_configuration",
               "setup_trust_anchor", "setup_directories", "fix_permissions",
               "daemon_reload", "pip_uninstall"}

\* C2: when update_unbound has compiled and installed, the service has become active and
\* the dig check against 127.0.0.1 fails, the workflow restores the pre-update backup and
\* ends with the service active.
C2_DigFailureRollsBack ==
    (/\ wf = "update"
     /\ pc = "done"
     /\ compOk
     /\ HasEvent(Ev("make_install", TRUE))
     /\ HasEvent(Ev("is_active", TRUE))
     /\ HasEvent(Ev("dig", FALSE)))
        => /\ \E i \in DOMAIN log : \E j \in DOMAIN log :
                /\ log[i] = Ev("dig", FALSE)
                /\ i < j
                /\ log[j].cmd = "restore"
           /\ service = "active"

\* the successful downloads and every extraction, configure and make before event i
IsBuildEvent(e) == (e.cmd \in DownloadCmds /\ e.ok) \/ e.cmd \in BuildCmds
BuildBefore(i) == SelectSeq(SubSeq(log, 1, i - 1), IsBuildEvent)

\* C3: in every run of update_unbound, "systemctl stop" and "make install" are issued
\* only after a download, the extraction, configure and make have succeeded, in that
\* order, with no failed extraction, configure or make before them.
C3_StopInstallAfterBuild ==
    \A i \in DOMAIN log :
        log[i].cmd \in {"systemctl_stop", "make_install"} =>
            /\ dlOk
            /\ compOk
            /\ BuildBefore(i) \in
                    {<<Ev(d, TRUE), Ev("tar_extract", TRUE), Ev("configure", TRUE),
                       Ev("make", TRUE)>> : d \in DownloadCmds}

C3_Witness ==
    /\ wf = "update"
    /\ HasEvent(Ev("requests_get", FALSE))
    /\ HasEvent(Ev("systemctl_stop", TRUE))
    /\ HasEvent(Ev("make_install", TRUE))

\* C4: in restore, reset-to-defaults, update, fix-existing-installation and uninstall,
\* every change to a configuration file, the binary or package, or the service comes
\* after create_backup has archived the configuration directory as it was.
C4_BackupBeforeFirstChange ==
    /\ \A i \in DOMAIN log :
        log[i].cmd \in ChangeCmds =>
            /\ \E j \in 1..(i - 1) : log[j] = Ev("create_backup", TRUE)
            /\ bpath \in DOMAIN archives
    /\ (log # <<>> /\ log[Len(log)].cmd = "create_backup") =>
            /\ bpath \in DOMAIN archives
            /\ archives[bpath] = BackupMembers(conf)
    /\ (wf = "reset" /\ pc = "done" /\ conf # EmptyDir /\ last.op = "create_full_configuration")
            => bpath \in DOMAIN archives

C4_Witness ==
    /\ wf = "reset"
    /\ pc = "done"
    /\ HasEvent(Ev("create_full_configuration", TRUE))
    /\ bpath \in DOMAIN archives
    /\ origin[bpath] # conf

\* the steps of update_unbound that run_command checks
CheckedCmds == {"configure", "make", "systemctl_stop", "make_install", "ldconfig",
                "systemctl_start"}
\* event i is a step that raised
StepRaised(i) ==
    \/ log[i] = Ev("exception", FALSE)
    \/ log[i].cmd \in CheckedCmds /\ ~log[i].ok
    \/ log[i] = Ev("is_active", FALSE)
RaisedSteps == {i \in DOMAIN log : StepRaised(i)}
FirstRaised == CHOOSE i \in RaisedSteps : \A j \in RaisedSteps : i <= j
CmdsAfter(i) == [k \in 1..(Len(log) - i) |-> log[i + k].cmd]

\* C20: when a step of update_unbound after the pre-update backup raises
\* (download, extraction, configure, compile, service stop, install, linker
\* refresh, service start, the service not becoming active), the workflow
\* calls the restore of the pre-update backup and then issues a start of
\* the service before it ends; a restore that meets no fault leaves the
\* configuration directory as the backup recorded it.
C20_FailureRestoresAndStarts ==
    (wf = "update" /\ pc = "done" /\ RaisedSteps # {}) =>
        /\ CmdsAfter(FirstRaised) \in {<<"restore", "systemctl_start">>,
                                       <<"restore", "systemctl_restart", "systemctl_start">>}
        /\ last.op = "restore"
        /\ last.fromBackup
        /\ last.src = origin[bpath]
        /\ last.result = "ok" => conf = origin[bpath]
C20_Witness ==
    /\ wf = "update"
    /\ pc = "done"
    /\ HasEvent(Ev("make_install", TRUE))
    /\ HasEvent(Ev("is_active", FALSE))
    /\ last.op = "restore"
    /\ last.result = "ok"
    /\ log[Len(log)].cmd = "systemctl_start"

\* "systemctl stop" has been issued
StopIssued == \E i \in DOMAIN log : log[i].cmd = "systemctl_stop"

\* C28 (as stated): as long as update_unbound has not issued the stop of the
\* service, and so when it fails at the download, the extraction, configure or
\* make, the workflow issues no stop and no restart of the service and the
\* configuration directory is as it was when the update began.
C28_FailureBeforeStopLeavesResolverAlone ==
    (wf = "update" /\ ~StopIssued) =>
        /\ \A i \in DOMAIN log : log[i].cmd # "systemctl_restart"
        /\ bpath \in DOMAIN origin => conf = origin[bpath]

\* C29 (as stated): whenever update_unbound has ended through its failure
\* handler, the installed binary is the one that was installed before the update
\* began, also when "make install" had already been run.
C29_FailureRestoresBinary ==
    (wf = "update" /\ pc = "done" /\ RaisedSteps # {}) => binary = "old"

\* what the claim rules out after "return": a download, a build step, a restore, a
\* write to the configuration, the binary or the service
EffectCmds == DownloadCmds \cup BuildCmds \cup ChangeCmds

\* C24 (as stated): when the operator answers "return" at the version selection of
\* update_unbound, the workflow ends with no download and no compile attempted,
\* no configuration file written or removed, no backup restored, and no stop,
\* start or restart of the service.
C24_ReturnHasNoSideEffects ==
    (wf = "update" /\ version = ReturnChoice) =>
        /\ \A i \in DOMAIN log : log[i].cmd \notin EffectCmds
        /\ conf = origin[bpath]

WorkflowNext ==
    \/ UpdateUnbound
    \/ RestoreBackupWorkflow
    \/ ResetToDefaults
    \/ FixExistingInstallation
    \/ UninstallManager

SpecWorkflow == WorkflowInit /\ [][WorkflowNext]_vars

(***************************************************************************)
(* Claims about quick edit                                                 *)
(***************************************************************************)
AllEnter == [q \in ParamSet |-> Enter]

\* C7: a quick edit in which the operator accepts what every prompt offers leaves the
\* file as it was and creates no backup file.
C7_AcceptAllChangesNothing ==
    (qlast.op = "quick_edit" /\ qlast.answers = AllEnter /\ qlast.apply)
        => /\ serverConf = qlast.before
           /\ confBackups = qlast.backupsBefore

\* the re-reading of a parameter with the pattern of the first pass
ReRead(content, param) == CurrentValue(content, param)
OtherLines(content, param) == SelectSeq(content, LAMBDA l : l.key # param)
TypedFor(answers) == {q \in ParamSet : ~answers[q].enter}

\* C8: when the operator gives one parameter p a value v other than its current one,
\* accepts every other prompt and confirms, then re-reading p yields v, the lines of
\* the other keys are what they were, and a backup copy holds the text before the edit.
C8_ChangePersists ==
    \A p \in ParamSet :
        (/\ qlast.op = "quick_edit"
         /\ qlast.apply
         /\ TypedFor(qlast.answers) = {p}
         /\ NewValue(qlast.before, p, qlast.answers[p]) # CurrentValue(qlast.before, p))
            => /\ ReRead(serverConf, p) = NewValue(qlast.before, p, qlast.answers[p])
               /\ OtherLines(serverConf, p) = OtherLines(qlast.before, p)
               /\ now \in DOMAIN confBackups
               /\ confBackups[now] = qlast.before

QuickEditNext ==
    \/ QuickEditConfig

QuickEditSpecInit ==
    /\ BackupInit
    /\ conf = EmptyDir
    /\ WfIdle
    /\ RestIdle
    /\ ForwardIdle
    /\ QuickEditInit

SpecQuickEdit == QuickEditSpecInit /\ [][QuickEditNext]_vars

(***************************************************************************)
(* Claims about the forwarding configuration                               *)
(***************************************************************************)
\* C9: with the "no forwarding" provider, or a provider without servers, forward.conf
\* does not exist after create_forwarding_config, whether or not it existed before; a
\* second application finds nothing to remove and changes nothing.
C9_NoForwardingRemovesFile ==
    (/\ flast.op = "create_forwarding_config"
     /\ (provider.key = "none" \/ Len(provider.servers) = 0))
        => /\ ~forwardConf.exists
           /\ flast.unlinked = flast.before.exists
           /\ calls > 1 => (flast.before = NoFile /\ ~flast.unlinked)

C9_Witness ==
    /\ flast.op = "create_forwarding_config"
    /\ provider.key # "none"
    /\ provider.servers = <<>>
    /\ calls > 1
    /\ forwardConf = NoFile

IsAddrLine(line) == line # <<>> /\ Head(line) = AddrPrefix
AddrLines == SelectSeq(forwardConf.lines, IsAddrLine)
NonIpv6(servers) == SelectSeq(servers, LAMBDA srv : ~srv.ipv6)
TlsLineCount == Cardinality({i \in DOMAIN forwardConf.lines : forwardConf.lines[i] = TlsLine})

\* C10: for a provider with servers, forward.conf has "forward-tls-upstream: yes"
\* exactly when the provider is encrypted, and one forward-addr line per server not
\* flagged IPv6, in list order: ip@port#hostname when encrypted with a hostname,
\* ip@port when the port is not 53, the bare ip otherwise.
C10_ForwardConfLines ==
    (/\ flast.op = "create_forwarding_config"
     /\ provider.key # "none"
     /\ Len(provider.servers) > 0)
        => /\ forwardConf.exists
           /\ TlsLineCount = (IF provider.encrypted THEN 1 ELSE 0)
           /\ Len(AddrLines) = Len(NonIpv6(provider.servers))
           /\ \A i \in DOMAIN AddrLines :
                LET srv == NonIpv6(provider.servers)[i]
                    port == IF srv.hasPort THEN srv.port
                            ELSE IF provider.encrypted THEN TlsPort ELSE DnsPort
                    addr == SubSeq(AddrLines[i], 2, Len(AddrLines[i]))
                IN CASE provider.encrypted /\ srv.hostname # "" ->
                            addr = <<srv.ip, "@">> \o Decimal(port) \o <<"#", srv.hostname>>
                     [] ~(provider.encrypted /\ srv.hostname # "") /\ port # DnsPort ->
                            addr = <<srv.ip, "@">> \o Decimal(port)
                     [] OTHER -> addr = <<srv.ip>>

C10_Witness ==
    /\ flast.op = "create_forwarding_config"
    /\ provider.encrypted
    /\ Len(provider.servers) = 2
    /\ \A i \in DOMAIN provider.servers :
            ~provider.servers[i].ipv6 /\ provider.servers[i].hostname # ""
    /\ Len(AddrLines) = 2
    /\ \A i \in DOMAIN AddrLines :
            AddrLines[i] = <<AddrPrefix, provider.servers[i].ip, "@", "8", "5", "3", "#",
                             provider.servers[i].hostname>>

ForwardNext ==
    \/ CreateForwardingConfig

ForwardSpecInit ==
    /\ BackupInit
    /\ conf = EmptyDir
    /\ WfIdle
    /\ RestIdle
    /\ QuickEditOnly
    /\ ForwardInit

SpecForward == ForwardSpecInit /\ [][ForwardNext]_vars

(***************************************************************************)
(* ConfigManager.edit_access_control and _update_access_control.           *)
(*                                                                         *)
(* server.conf is f.readlines(): one record per line, every line ending in *)
(* "\n".  A line is the "# Access Control" comment, a blank line, a line   *)
(* with the text "access-control:" (a rule, a rule behind "#", or a rule   *)
(* with the action missing), or any other line.                            *)
(***************************************************************************)
Networks == {"203.0.113.0/24", "10.0.0.0/8"}
RuleActions == {"allow", "deny"}
Rules == [network : Networks, action : RuleActions]
MarkerLine == [kind |-> "marker", parts |-> <<>>]
EmptyLine == [kind |-> "blank", parts |-> <<>>]
OtherLine == [kind |-> "other", parts |-> <<>>]
\* "    access-control: <network> <action>\n"
RuleLine(rule) == [kind |-> "rule", parts |-> <<rule.network, rule.action>>]
\* "    # access-control: <network> <action>\n"
CommentedRuleLine(rule) == [kind |-> "commented", parts |-> <<rule.network, rule.action>>]
\* "    access-control: <network>\n"
ShortRuleLine(network) == [kind |-> "rule", parts |-> <<network>>]
AcLines ==
    {MarkerLine, EmptyLine, OtherLine, ShortRuleLine("10.0.0.0/8"),
     CommentedRuleLine([network |-> "10.0.0.0/8", action |-> "deny"])}
        \cup {RuleLine(r) : r \in Rules}
AcFiles == SeqsUpTo(AcLines, MaxAcLines)

\* 'access-control:' in line
HasAccessControl(line) == line.kind \in {"rule", "commented"}
\* '# Access Control' in line
HasMarker(line) == line.kind = "marker"
\* line.strip() == ''
IsBlank(line) == line.kind = "blank"

\* current_rules: the lines with 'access-control:' that have two parts or more after it
RECURSIVE ParseRules(_)
ParseRules(lines) ==
    IF lines = <<>> THEN <<>>
    ELSE (IF HasAccessControl(Head(lines)) /\ Len(Head(lines).parts) >= 2
          THEN <<[network |-> Head(lines).parts[1], action |-> Head(lines).parts[2]]>>
          ELSE <<>>)
            \o ParseRules(Tail(lines))

\* list.insert(index, x): a negative index counts from the end, and an index beyond
\* either end is taken to that end
ListInsert(list, index, x) ==
    LET counted == IF index < 0 THEN index + Len(list) ELSE index
        clipped == IF counted < 0 THEN 0
                   ELSE IF counted > Len(list) THEN Len(list)
                   ELSE counted
    IN SubSeq(list, 1, clipped) \o <<x>> \o SubSeq(list, clipped + 1, Len(list))

\* new_lines: the lines without 'access-control:'
WithoutRules(lines) == SelectSeq(lines, LAMBDA l : ~HasAccessControl(l))

\* the 0-based index of the first line for which test holds, or -1
FirstIndex(lines, test(_)) ==
    IF \E i \in DOMAIN lines : test(lines[i])
    THEN (CHOOSE i \in DOMAIN lines :
            test(lines[i]) /\ \A j \in 1..(i - 1) : ~test(lines[j])) - 1
    ELSE -1
BlankAfterFirst(lines) ==
    IF \E i \in 2..Len(lines) : IsBlank(lines[i])
    THEN (CHOOSE i \in 2..Len(lines) :
            IsBlank(lines[i]) /\ \A j \in 2..(i - 1) : ~IsBlank(lines[j])) - 1
    ELSE -1

\* for network, action in rules: new_lines.insert(insert_index, ...); insert_index += 1
RECURSIVE InsertRules(_, _, _)
InsertRules(new_lines, insert_index, rules) ==
    IF rules = <<>> THEN new_lines
    ELSE InsertRules(ListInsert(new_lines, insert_index, RuleLine(Head(rules))),
                     insert_index + 1, Tail(rules))

\* _update_access_control(rules) on an existing server.conf
UpdateAccessControl(lines, rules) ==
    LET new_lines == WithoutRules(lines)
        marker == FirstIndex(new_lines, HasMarker)
        blank == BlankAfterFirst(new_lines)
    IN IF marker # -1
       THEN InsertRules(new_lines, marker + 1, rules)
       ELSE IF blank # -1
            THEN InsertRules(ListInsert(new_lines, blank, MarkerLine), blank + 1, rules)
            ELSE InsertRules(new_lines, -1, rules)

AccessInit ==
    /\ acFile \in AcFiles
    /\ acEdits = 0
    /\ alast = NoOp

\* edit_access_control, choice "1": add_rule
AddRule ==
    /\ acEdits < MaxAcEdits
    /\ acEdits' = acEdits + 1
    /\ \E rule \in Rules :
        /\ acFile' = UpdateAccessControl(acFile, Append(ParseRules(acFile), rule))
        /\ alast' = [op |-> "add", before |-> ParseRules(acFile), rule |-> rule,
                     undoes |-> FALSE,
                     rules |-> Append(ParseRules(acFile), rule)]
    /\ UNCHANGED notAcVars

\* del current_rules[rule_num - 1]
DeleteAt(list, num) == SubSeq(list, 1, num - 1) \o SubSeq(list, num + 1, Len(list))

\* edit_access_control, choice "2": remove_rule
RemoveRule ==
    /\ acEdits < MaxAcEdits
    /\ acEdits' = acEdits + 1
    /\ ParseRules(acFile) # <<>>
    /\ \E rule_num \in 1..Len(ParseRules(acFile)) :
        /\ acFile' = UpdateAccessControl(acFile, DeleteAt(ParseRules(acFile), rule_num))
        /\ alast' = [op |-> "remove",
                     before |-> IF alast.op = "add" THEN alast.before ELSE <<>>,
                     rule |-> ParseRules(acFile)[rule_num],
                     undoes |-> /\ alast.op = "add"
                                /\ ParseRules(acFile)[rule_num] = alast.rule
                                /\ \A k \in DOMAIN ParseRules(acFile) :
                                    ParseRules(acFile)[k] = alast.rule => k = rule_num,
                     rules |-> DeleteAt(ParseRules(acFile), rule_num)]
    /\ UNCHANGED notAcVars

\* reset_rules: default_rules
DefaultRules ==
    << [network |-> "127.0.0.0/8", action |-> "allow"],
       [network |-> "10.0.0.0/8", action |-> "allow"],
       [network |-> "172.16.0.0/12", action |-> "allow"],
       [network |-> "192.168.0.0/16", action |-> "allow"] >>

\* edit_access_control, choice "3": reset_rules
ResetRules ==
    /\ acEdits < MaxAcEdits
    /\ acEdits' = acEdits + 1
    /\ acFile' = UpdateAccessControl(acFile, DefaultRules)
    /\ alast' = [op |-> "reset", before |-> <<>>, rule |-> DefaultRules[1],
                 undoes |-> FALSE, rules |-> DefaultRules]
    /\ UNCHANGED notAcVars

AccessNext ==
    \/ AddRule
    \/ RemoveRule
    \/ ResetRules

AccessSpecInit ==
    /\ CoreIdle
    /\ DiagIdle
    /\ MenuIdle
    /\ PerfIdle
    /\ FormatIdle
    /\ HintsIdle
    /\ FixIdle
    /\ AccessInit

SpecAccess == AccessSpecInit /\ [][AccessNext]_vars

\* C11: after a rule is added, parsing server.conf gives the rules parsed before
\* followed by the added rule; after that rule is then removed by its index, parsing
\* gives the rules parsed before the add.
C11_AccessControlRoundTrip ==
    /\ alast.op = "add" => ParseRules(acFile) = Append(alast.before, alast.rule)
    /\ (alast.op = "remove" /\ alast.undoes) => ParseRules(acFile) = alast.before

\* the 1-based indexes of the lines of server.conf with 'access-control:'
AccessControlIndexes == {i \in DOMAIN acFile : HasAccessControl(acFile[i])}

\* C21: after an add, a remove or a reset of rules, on any server.conf, the lines
\* with 'access-control:' are exactly the lines of the rule list, in its order, in
\* one block right after the "# Access Control" comment, and there is no
\* access-control line anywhere else in the file.
C21_RulesFormOneBlock ==
    alast.op \in {"add", "remove", "reset"} =>
        \/ alast.rules = <<>> /\ AccessControlIndexes = {}
        \/ \E m \in DOMAIN acFile :
            /\ HasMarker(acFile[m])
            /\ AccessControlIndexes = (m + 1)..(m + Len(alast.rules))
            /\ \A k \in DOMAIN alast.rules : acFile[m + k] = RuleLine(alast.rules[k])

(***************************************************************************)
(* Diagnostics (troubleshooter.py).  run_diagnostics looks at the two      *)
(* services, at the listeners on ports 53 and 8953, at unbound-checkconf,  *)
(* at five required files, at the ownership of the directory and at a live *)
(* query, and sums up the issues it collected.                             *)
(***************************************************************************)
\* the list without the trust anchor
RequiredFilesNoAnchor ==
    << [path |-> "/etc/unbound/unbound.conf", description |-> "Main configuration"],
       [path |-> "/etc/unbound/root.hints", description |-> "Root hints"],
       [path |-> "/etc/unbound/unbound_server.key", description |-> "Server key"],
       [path |-> "/etc/unbound/unbound_control.key", description |-> "Control key"] >>
RequiredFiles ==
    << [path |-> "/etc/unbound/unbound.conf", description |-> "Main configuration"],
       [path |-> "/etc/unbound/root.key", description |-> "DNSSEC trust anchor"],
       [path |-> "/etc/unbound/root.hints", description |-> "Root hints"],
       [path |-> "/etc/unbound/unbound_server.key", description |-> "Server key"],
       [path |-> "/etc/unbound/unbound_control.key", description |-> "Control key"] >>
RequiredPaths == {"/etc/unbound/unbound.conf", "/etc/unbound/root.key",
                  "/etc/unbound/root.hints", "/etc/unbound/unbound_server.key",
                  "/etc/unbound/unbound_control.key"}
\* unbound-checkconf: exit status 0, another exit status, or it could not be run
CheckconfOutcomes == {"valid", "invalid", "raised"}
Systems ==
    [unbound : BOOLEAN, redis : BOOLEAN, port53 : BOOLEAN, control : BOOLEAN,
     checkconf : CheckconfOutcomes, missing : SUBSET RequiredPaths, dig : BOOLEAN,
     user : BOOLEAN]

ServiceIssue == <<"Unbound service is not running">>
RedisIssue == <<"Redis service is not running">>
PortIssue == <<"Port 53 is not listening">>
ConfigIssue(outcome) ==
    IF outcome = "invalid" THEN <<"Configuration is invalid">>
    ELSE <<"Could not check configuration: ", "e">>
FileIssue(f) == <<f.description, " missing: ", f.path>>

When(cond, issue) == IF cond THEN <<issue>> ELSE <<>>
RECURSIVE FileIssues(_, _)
FileIssues(files, missing) ==
    IF files = <<>> THEN <<>>
    ELSE When(Head(files).path \in missing, FileIssue(Head(files)))
         \o FileIssues(Tail(files), missing)
\* _check_permissions: what it prints when pwd.getpwnam("unbound") or
\* grp.getgrnam("unbound") raises KeyError (s.user is false); it has no access to
\* the list of issues and returns nothing
CheckPermissions(s) ==
    [printed |-> IF s.user THEN <<>> ELSE <<"Unbound user does not exist">>,
     issues |-> <<>>]
\* the list run_diagnostics has collected when it prints its summary
Diagnose(s) ==
    When(~s.unbound, ServiceIssue)
    \o When(~s.redis, RedisIssue)
    \o When(~s.port53, PortIssue)
    \o When(s.checkconf # "valid", ConfigIssue(s.checkconf))
    \o FileIssues(RequiredFiles, s.missing)
    \o CheckPermissions(s).issues
\* the panel of the summary
Summary(found) == IF found # <<>> THEN "issues" ELSE "success"

DiagInit ==
    /\ sys \in Systems
    /\ issues = <<>>
    /\ ran = FALSE
RunDiagnostics ==
    /\ issues' = Diagnose(sys)
    /\ ran' = TRUE
    /\ UNCHANGED sys
    /\ UNCHANGED notDiagVars
\* the trust anchor is fetched and the service is started; whether a
\* listener on 127.0.0.1 or 0.0.0.0 port 53 follows depends on the
\* interfaces the server is configured with
Remedy ==
    /\ \/ ~sys.unbound
       \/ "/etc/unbound/root.key" \in sys.missing
    /\ \E listening \in BOOLEAN :
          sys' = [sys EXCEPT !.unbound = TRUE, !.port53 = listening,
                             !.missing = @ \ {"/etc/unbound/root.key"}]
    /\ issues' = <<>>
    /\ ran' = FALSE
    /\ UNCHANGED notDiagVars
DiagNext ==
    \/ RunDiagnostics
    \/ Remedy
DiagSpecInit ==
    /\ CoreIdle
    /\ AccessIdle
    /\ MenuIdle
    /\ PerfIdle
    /\ FormatIdle
    /\ HintsIdle
    /\ FixIdle
    /\ DiagInit

SpecDiag == DiagSpecInit /\ [][DiagNext]_vars

\* what is at fault on a system: a stopped service, a running resolver
\* without a listener on port 53, a configuration that does not check, a
\* missing required file
Faults(s) ==
    (IF s.unbound THEN {} ELSE {"unbound"})
    \cup (IF s.redis THEN {} ELSE {"redis"})
    \cup (IF s.unbound /\ ~s.port53 THEN {"port53"} ELSE {})
    \cup (IF s.checkconf = "valid" THEN {} ELSE {"checkconf"})
    \cup s.missing
AnchorIssue == <<"DNSSEC trust anchor", " missing: ", "/etc/unbound/root.key">>

\* C12 (as stated): on a system whose only faults are a missing trust anchor
\* and a stopped resolver the summary lists exactly the two issues; with
\* nothing at fault and a live query that is answered the summary is the
\* success panel.
C12_ExactlyTwoIssues ==
    ran =>
      /\ Faults(sys) = {"unbound", "/etc/unbound/root.key"}
            => issues = <<ServiceIssue, AnchorIssue>>
      /\ (Faults(sys) = {} /\ sys.dig)
            => (issues = <<>> /\ Summary(issues) = "success")

\* C12 (amended): on a system whose only faults are a missing trust anchor
\* and a stopped resolver the summary lists the stopped service and the
\* missing trust anchor as two distinct issues, and between them "Port 53
\* is not listening" when, the resolver being stopped, nothing listens on
\* port 53; with nothing at fault and a live query that is answered the
\* summary is the success panel.
C12_BothIssuesListed ==
    ran =>
      /\ Faults(sys) = {"unbound", "/etc/unbound/root.key"}
            => /\ issues = IF sys.port53 THEN <<ServiceIssue, AnchorIssue>>
                           ELSE <<ServiceIssue, PortIssue, AnchorIssue>>
               /\ Summary(issues) = "issues"
      /\ (Faults(sys) = {} /\ sys.dig)
            => (issues = <<>> /\ Summary(issues) = "success")
C12_Witness ==
    /\ ran
    /\ Faults(sys) = {"unbound", "/etc/unbound/root.key"}
    /\ ~sys.port53
    /\ issues = <<ServiceIssue, PortIssue, AnchorIssue>>

\* the checks whose failure the sweep counts as an issue
HardChecksPass(s) ==
    /\ s.unbound
    /\ s.port53
    /\ s.checkconf = "valid"
    /\ s.missing = {}
    /\ s.user

\* C25 (as stated): run_diagnostics ends in the success panel only if every check
\* passed; when the account "unbound" does not exist, that is among the issues and
\* the summary is the panel of issues.
C25_MissingAccountIsAnIssue ==
    ran =>
        /\ Summary(issues) = "success" => HardChecksPass(sys)
        /\ ~sys.user =>
            /\ \E i \in DOMAIN issues : issues[i] = CheckPermissions(sys).printed
            /\ Summary(issues) = "issues"

(***************************************************************************)
(* The interactive menu (menu_system.py) with the tree the CLI builds      *)
(* (cli.py setup_menu).  One action is one iteration of InteractiveMenu.run*)
(* together with what UnboundManagerCLI.run does when run is left.         *)
(* Python values are named by tags ("False", "None", ...).                 *)
(***************************************************************************)
NoKey == ""
Item(name, key, wrapped) ==
    [kind |-> "item", name |-> name, key |-> key, wrapped |-> wrapped, items |-> <<>>]
Category(name, items) ==
    [kind |-> "category", name |-> name, key |-> NoKey, wrapped |-> FALSE, items |-> items]
MenuItems ==
    << Item("Services", "s", FALSE),
       Item("View", "v", FALSE),
       Category("Configuration",
           << Item("DNS Upstream", NoKey, FALSE), Item("Server Settings", NoKey, TRUE),
              Item("Access Control", NoKey, TRUE), Item("Redis Cache", NoKey, TRUE),
              Item("DNSSEC", NoKey, TRUE) >>),
       Category("Testing",
           << Item("Run Diagnostics", NoKey, TRUE), Item("Test DNS", NoKey, TRUE),
              Item("Performance", NoKey, TRUE), Item("Network", NoKey, TRUE) >>),
       Category("Backups",
           << Item("Create Backup", NoKey, FALSE), Item("Restore Backup", NoKey, TRUE),
              Item("Cleanup", NoKey, FALSE) >>),
       Category("Install/Update",
           << Item("Update Unbound", NoKey, TRUE), Item("Update Manager", NoKey, FALSE),
              Item("Fresh Install", NoKey, TRUE), Item("Fix Installation", NoKey, TRUE),
              Item("Regenerate Keys", NoKey, TRUE), Item("Uninstall", NoKey, FALSE) >>),
       Item("Help", "h", FALSE),
       Item("Exit", "q", FALSE) >>
CategoryNames == {"Configuration", "Testing", "Backups", "Install/Update"}

RECURSIVE VisibleFrom(_, _)
VisibleFrom(i, exp) ==
    IF i > Len(MenuItems) THEN <<>>
    ELSE LET item == MenuItems[i]
         IN  <<item>>
             \o (IF item.kind = "category" /\ item.name \in exp THEN item.items ELSE <<>>)
             \o VisibleFrom(i + 1, exp)
\* the expansion states, numbered 1..16, and the visible list of each
ExpCode(exp) ==
    1 + (IF "Configuration" \in exp THEN 1 ELSE 0) + (IF "Testing" \in exp THEN 2 ELSE 0)
      + (IF "Backups" \in exp THEN 4 ELSE 0) + (IF "Install/Update" \in exp THEN 8 ELSE 0)
ExpOfCode(c) == CHOOSE exp \in SUBSET CategoryNames : ExpCode(exp) = c
RECURSIVE VisibleUpTo(_)
VisibleUpTo(c) ==
    IF c = 0 THEN <<>> ELSE Append(VisibleUpTo(c - 1), VisibleFrom(1, ExpOfCode(c)))
VisibleTable == VisibleUpTo(16)
\* _get_visible_items
GetVisibleItems(exp) == VisibleTable[ExpCode(exp)]
\* the entry at a 0-based index
At(visible, index) == visible[index + 1]

\* navigate_down going round
NavigateDownWrapping(index, exp) == (index + 1) % Len(GetVisibleItems(exp))
\* navigate_up, navigate_down
NavigateUp(index) == IF index > 0 THEN index - 1 ELSE index
NavigateDown(index, exp) ==
    IF index < Len(GetVisibleItems(exp)) - 1 THEN index + 1 ELSE index

\* ESC or b with the cursor left where it is
CursorKeptOnBack(index) == index
\* ESC, b: self.collapse_all(); self.current_index = 0
CursorOnBack(index) == 0

\* what an action hands back: a value, or an exception that leaves it
Values == {"False", "None", "RETURN", "0", "path", "True"}
Raises == {"Exception", "KeyboardInterrupt"}
\* "not result"
IsFalsy(value) == value \in {"False", "None", "0"}
\* result is False
IsFalse(value) == value = "False"

\* the answers at a selection screen inside an action: quit, return
ScreenAnswers == {"q", "r"}
\* the items whose action asks at such a screen with Prompt.ask
ScreenItems == {"DNS Upstream", "Access Control", "Restore Backup", "Update Unbound",
                "Fresh Install"}
\* what the action of an item can hand back, given the operator's answer at
\* its selection screen.  edit_access_control and restore_backup return
\* False on "q"; change_dns_upstream, update_unbound and install_unbound go
\* on with the sentinel that select_dns_upstream and select_version return
\* and hold no "return False"; uninstall_manager ends in sys.exit(0)
ActionOutcomes(name, answer) ==
    CASE name = "Exit" -> {"False"}
      [] name \in {"Access Control", "Restore Backup"} /\ answer = "q" -> {"False"}
      [] name \in {"DNS Upstream", "Update Unbound", "Fresh Install"}
            -> {"None"} \cup Raises
      [] name = "Uninstall" -> {"None", "SystemExit"} \cup Raises
      [] OTHER -> Values \cup Raises

\* a call's outcome: what it handed back and how many of the interrupts the
\* operator makes at "Press Enter to continue" are still to come
Out(value, left) == [out |-> value, left |-> left]
\* wrap_action's wrapped()
WrapAction(raw, n) ==
    CASE raw \in Values ->
            IF n = 0 THEN Out(raw, 0)
            ELSE IF n = 1 THEN Out("None", 0)
            ELSE Out("KeyboardInterrupt", n - 2)
      [] raw \in Raises ->
            IF n = 0 THEN Out("None", 0) ELSE Out("KeyboardInterrupt", n - 1)
      [] OTHER -> Out(raw, n)
\* current_item.action()
CallAction(item, raw, n) == IF item.wrapped THEN WrapAction(raw, n) ELSE Out(raw, n)
\* handle_selection without its handlers
NoCatch(r) == r
\* the try of handle_selection around the action
CatchInSelection(r) ==
    IF r.out \in Raises
    THEN IF r.left = 0 THEN Out("None", 0) ELSE Out("KeyboardInterrupt", r.left - 1)
    ELSE r

\* handle_selection: the new expansion state and the outcome
HandleSelection(index, exp, raw, n) ==
    LET visible == GetVisibleItems(exp)
    IN  IF index >= Len(visible) THEN [exp |-> exp, r |-> Out("None", n), item |-> NoKey]
        ELSE LET current == At(visible, index)
             IN  IF current.kind = "category"
                 THEN [exp |-> IF current.name \in exp THEN exp \ {current.name}
                               ELSE exp \cup {current.name},
                       r |-> Out("None", n), item |-> NoKey]
                 ELSE [exp |-> exp, r |-> CatchInSelection(CallAction(current, raw, n)),
                       item |-> current.name]

\* 0-based indexes of the visible leaf items, in order
LeafIndexes(visible) ==
    SelectSeq([i \in 1..Len(visible) |-> i - 1], LAMBDA i : At(visible, i).kind = "item")
RECURSIVE LeavesUpTo(_)
LeavesUpTo(c) ==
    IF c = 0 THEN <<>> ELSE Append(LeavesUpTo(c - 1), LeafIndexes(VisibleTable[c]))
LeavesTable == LeavesUpTo(16)
\* quick_select_by_key: the index it moves to, or -1
QuickIndexByKey(exp, key) ==
    LET found == SelectSeq(LeavesTable[ExpCode(exp)], LAMBDA i : At(VisibleTable[ExpCode(exp)], i).key = key)
    IN  IF found = <<>> THEN -1 ELSE Head(found)
\* quick_select_by_number
QuickIndexByNumber(exp, number) ==
    IF number <= Len(LeavesTable[ExpCode(exp)]) THEN LeavesTable[ExpCode(exp)][number] ELSE -1

KeyLower(key) == IF key = "Q" THEN "q" ELSE key
DigitKeys == {"1", "9"}
KeyNumber(key) == CASE key = "1" -> 1 [] key = "9" -> 9
\* key.lower() in 'stlcdma'
LetterShortcuts == {"s", "t", "l", "c", "d", "m", "a"}
Keys == {"UP", "k", "DOWN", "j", "ENTER", "ESC", "b", "q", "h", "s", "v", "t", "x"}
        \cup DigitKeys

\* where a key sends run: "up", "down", "select", "back", "quit", "quick"
\* with the key looked for, "number", or "none"
Dispatch(key) ==
    CASE key \in {"UP", "k"} -> [to |-> "up", key |-> NoKey]
      [] key \in {"DOWN", "j"} -> [to |-> "down", key |-> NoKey]
      [] key \in {"ENTER", " "} -> [to |-> "select", key |-> NoKey]
      [] key \in {"ESC", "b"} -> [to |-> "back", key |-> NoKey]
      [] key \in {"q", "Q"} -> [to |-> "quit", key |-> NoKey]
      [] key \in {"h", "H", "?"} -> [to |-> "quick", key |-> "h"]
      [] KeyLower(key) \in LetterShortcuts -> [to |-> "quick", key |-> KeyLower(key)]
      [] key \in DigitKeys -> [to |-> "number", key |-> NoKey]
      [] OTHER -> [to |-> "none", key |-> NoKey]

\* one iteration of run for a key that selects: cursor, expansion, outcome
Select(key, raw, n) ==
    LET d == Dispatch(key)
        index == CASE d.to = "select" -> cursor
                   [] d.to = "quick" -> QuickIndexByKey(expanded, d.key)
                   [] d.to = "number" -> QuickIndexByNumber(expanded, KeyNumber(key))
    IN  IF index = -1
        THEN [cursor |-> cursor, exp |-> expanded, r |-> Out("None", n), item |-> NoKey]
        ELSE LET h == HandleSelection(index, expanded, raw, n)
             IN  [cursor |-> index, exp |-> h.exp, r |-> h.r, item |-> h.item]
\* the item a selecting key would invoke, or NoKey
Selected(key) == Select(key, "None", 0).item
AllEntries == {VisibleTable[16][i] : i \in 1..Len(VisibleTable[16])}
\* the names of the items whose action is wrap_action(...)
WrappedNames == {item.name : item \in {e \in AllEntries : e.wrapped}}

\* how run is left on an outcome: a False result returns False, an
\* interrupt is acknowledged at the pause of run's handler or leaves run,
\* sys.exit leaves it
LeaveRun(r) ==
    CASE r.out = "KeyboardInterrupt" -> IF r.left = 0 THEN "running" ELSE "interrupted"
      [] r.out = "SystemExit" -> "exited"
      [] r.out = "Exception" -> "raised"
      [] IsFalse(r.out) -> "returned_false"
      [] OTHER -> "running"
\* UnboundManagerCLI.run once menu.run is left
LeaveCli(left) ==
    CASE left = "returned_false" -> "ended"
      [] left = "running" -> "looping"
      [] OTHER -> left

MaxInterrupts == 2
\* how many times "Press Enter to continue" can be asked after an outcome
Pauses(name, raw) ==
    IF name = NoKey \/ raw = "SystemExit" THEN 0
    ELSE IF name \in WrappedNames THEN (IF raw \in Values THEN 4 ELSE 3)
    ELSE (IF raw \in Values THEN 0 ELSE 2)
MenuInit ==
    /\ cursor = 0
    /\ expanded = {}
    /\ menuRun = "running"
    /\ cliRun = "looping"
    /\ mlast = NoOp

\* from: where the cursor was, for the keys that leave it or move it by one
Record(key, to, item, answer, raw, n, result) ==
    [op |-> "key", key |-> key, to |-> to,
     from |-> IF to \in {"quick", "number", "back"} THEN -1 ELSE cursor,
     item |-> item, answer |-> answer, raw |-> raw, interrupts |-> n, result |-> result]

\* UP, k, DOWN, j, ESC, b and the keys that are not bound
KeyNavigate ==
    /\ menuRun = "running"
    /\ \E key \in Keys :
         LET d == Dispatch(key)
         IN  /\ d.to \in {"up", "down", "back", "none"}
             /\ cursor' = CASE d.to = "up" -> NavigateUp(cursor)
                            [] d.to = "down" -> NavigateDown(cursor, expanded)
                            [] d.to = "back" -> CursorOnBack(cursor)
                            [] OTHER -> cursor
             /\ expanded' = IF d.to = "back" THEN {} ELSE expanded
             /\ mlast' = Record(key, d.to, NoKey, "none", "None", 0, "None")
    /\ UNCHANGED <<menuRun, cliRun>>
    /\ UNCHANGED notMenuVars
\* q, Q
KeyQuit ==
    /\ menuRun = "running"
    /\ \E key \in {"q", "Q"} :
         /\ Dispatch(key).to = "quit"
         /\ mlast' = Record(key, "quit", NoKey, "none", "None", 0, "False")
    /\ menuRun' = "returned_false"
    /\ cliRun' = LeaveCli("returned_false")
    /\ UNCHANGED <<cursor, expanded>>
    /\ UNCHANGED notMenuVars
\* ENTER, space, the quick keys and the digits
KeySelect ==
    /\ menuRun = "running"
    /\ \E key \in Keys :
         /\ Dispatch(key).to \in {"select", "quick", "number"}
         /\ LET name == Selected(key)
            IN  \E answer \in (IF name \in ScreenItems THEN ScreenAnswers ELSE {"none"}) :
                \E raw \in (IF name = NoKey THEN {"None"}
                             ELSE ActionOutcomes(name, answer)) :
                \E n \in 0..MaxInterrupts :
                  LET chosen == Select(key, raw, n)
                  IN  /\ n <= Pauses(name, raw)
                      /\ cursor' = chosen.cursor
                      /\ expanded' = chosen.exp
                      /\ menuRun' = LeaveRun(chosen.r)
                      /\ cliRun' = LeaveCli(LeaveRun(chosen.r))
                      /\ mlast' = Record(key, Dispatch(key).to, name, answer, raw, n,
                                         chosen.r.out)
    /\ UNCHANGED notMenuVars
\* Ctrl+C read as a key: get_key raises KeyboardInterrupt inside run's try
KeyInterrupt ==
    /\ menuRun = "running"
    /\ \E n \in 0..1 :
         /\ menuRun' = LeaveRun(Out("KeyboardInterrupt", n))
         /\ cliRun' = LeaveCli(LeaveRun(Out("KeyboardInterrupt", n)))
         /\ mlast' = Record("CTRL_C", "interrupt", NoKey, "none", "None", n,
                            "KeyboardInterrupt")
    /\ UNCHANGED <<cursor, expanded>>
    /\ UNCHANGED notMenuVars
MenuNext ==
    \/ KeyNavigate
    \/ KeyQuit
    \/ KeySelect
    \/ KeyInterrupt
MenuSpecInit ==
    /\ CoreIdle
    /\ AccessIdle
    /\ DiagIdle
    /\ PerfIdle
    /\ FormatIdle
    /\ HintsIdle
    /\ FixIdle
    /\ MenuInit

SpecMenu == MenuSpecInit /\ [][MenuNext]_vars

\* C13: navigation does not wrap.  After Up or 'k' the cursor is one above
\* where it was, or where it was if that was the first visible entry; after
\* Down or 'j' it is one below, or where it was if that was the last visible
\* entry; in every expansion state.
C13_NavigationDoesNotWrap ==
    mlast.op = "key" =>
      /\ mlast.key \in {"UP", "k"}
            => cursor = IF mlast.from = 0 THEN mlast.from ELSE mlast.from - 1
      /\ mlast.key \in {"DOWN", "j"}
            => cursor = IF mlast.from = Len(GetVisibleItems(expanded)) - 1
                        THEN mlast.from ELSE mlast.from + 1
C13_Witness ==
    /\ mlast.op = "key"
    /\ mlast.key = "j"
    /\ expanded = CategoryNames
    /\ mlast.from = Len(GetVisibleItems(expanded)) - 1
    /\ cursor = mlast.from

\* C14 (as stated): the quit answer at a selection screen inside an action
\* (access control, the restore list, the version selection of install and
\* update, the provider selection of the DNS-upstream change) makes run
\* return False and the CLI loop end.
C14_QuitLeavesProgram ==
    (mlast.op = "key" /\ mlast.answer = "q" /\ mlast.interrupts = 0)
        => (menuRun = "returned_false" /\ cliRun = "ended")

\* C15: run returns False only when the operator pressed 'q' or an invoked
\* item's action returned False; an action that returned None, a RETURN
\* sentinel, 0, a path or True leaves the loop running; the CLI loop ends
\* only when run returned False.
C15_OnlyFalseEndsTheLoop ==
    /\ menuRun = "returned_false"
          => \/ mlast.to = "quit"
             \/ (mlast.item # NoKey /\ mlast.result = "False")
    /\ (mlast.op = "key" /\ mlast.item # NoKey
           /\ mlast.result \in {"None", "RETURN", "0", "path", "True"})
          => (menuRun = "running" /\ cliRun = "looping")
    /\ cliRun = "ended" => menuRun = "returned_false"
C15_Witness ==
    /\ mlast.op = "key"
    /\ mlast.item # NoKey
    /\ mlast.raw = "0"
    /\ mlast.result = "0"
    /\ menuRun = "running"

\* C16: when the action of an item raises or is interrupted, invoked by
\* Enter, quick key or digit, and the operator acknowledges the pause with
\* Enter, run is not left: the selection yields None, the loop goes on, the
\* cursor is on the item and no category changed its expansion.
C16_ActionFailureIsContained ==
    [][(mlast'.op = "key" /\ mlast'.item # NoKey /\ mlast'.raw \in Raises
           /\ mlast'.interrupts = 0)
         => /\ menuRun' = "running"
            /\ cliRun' = "looping"
            /\ mlast'.result = "None"
            /\ expanded' = expanded
            /\ At(GetVisibleItems(expanded'), cursor').name = mlast'.item
            /\ mlast'.to = "select" => cursor' = cursor]_vars
C16_Witness ==
    /\ mlast.op = "key"
    /\ mlast.to = "number"
    /\ mlast.item = "Restore Backup"
    /\ mlast.raw = "KeyboardInterrupt"
    /\ mlast.interrupts = 0
    /\ menuRun = "running"

\* the leaf item bound to a quick key
BoundItem(key) == (CHOOSE item \in AllEntries : item.key = key).name
\* C17 (as stated): pressing 's', 'v', 'h' or 'q' moves the cursor to the
\* item the key is bound to and invokes its action, wherever the cursor was
\* and whatever is expanded.
C17_QuickKeyInvokes ==
    (mlast.op = "key" /\ mlast.key \in {"s", "v", "h", "q"})
        => /\ mlast.item = BoundItem(mlast.key)
           /\ At(GetVisibleItems(expanded), cursor).name = mlast.item

\* C26: after every key (Up, Down, j, k, Enter, Escape, b, the quick keys, the
\* digits, an interrupt) and every return of an action, the cursor is the 0-based
\* index of an entry that is displayed: 0 <= cursor < number of visible entries,
\* also right after a category was collapsed.
C26_CursorPointsAtVisibleEntry ==
    /\ 0 <= cursor
    /\ cursor < Len(GetVisibleItems(expanded))
\* Enter on the header of the last category, expanded until then and with the
\* category above it expanded as well
C26_Witness ==
    /\ mlast.op = "key"
    /\ mlast.key = "ENTER"
    /\ mlast.from = cursor
    /\ expanded # {}
    /\ At(GetVisibleItems(expanded), cursor).kind = "category"
    /\ At(GetVisibleItems(expanded), cursor).name \notin expanded
    /\ cursor > Len(GetVisibleItems({}))

(***************************************************************************)
(* The query benchmark (tester.py test_performance).  A query takes some   *)
(* milliseconds and comes to exit status 0 ("zero"), to another status     *)
(* ("nonzero") or to an exception of run_command ("raised", the timeout).  *)
(* A mean or median is a fraction [num, den].                              *)
(***************************************************************************)
Times == {5, 10, 20, 30, 40, 50, 100}
Query(outcome, elapsed) == [outcome |-> outcome, elapsed |-> elapsed]
QueryResults ==
    {Query("zero", t) : t \in Times} \cup {Query("nonzero", 5), Query("raised", 5000)}
\* response_times: the elapsed times of the queries with returncode 0
ResponseTimes(results) ==
    LET done == SelectSeq(results, LAMBDA q : q.outcome = "zero")
    IN  [i \in 1..Len(done) |-> done[i].elapsed]

RECURSIVE SumOf(_)
SumOf(xs) == IF xs = <<>> THEN 0 ELSE Head(xs) + SumOf(Tail(xs))
RECURSIVE InsertSorted(_, _)
InsertSorted(x, sorted) ==
    IF sorted = <<>> THEN <<x>>
    ELSE IF x <= Head(sorted) THEN <<x>> \o sorted
    ELSE <<Head(sorted)>> \o InsertSorted(x, Tail(sorted))
RECURSIVE Sorted(_)
Sorted(xs) == IF xs = <<>> THEN <<>> ELSE InsertSorted(Head(xs), Sorted(Tail(xs)))
Frac(num, den) == [num |-> num, den |-> den]
\* statistics.mean, min, max, statistics.median
Mean(xs) == Frac(SumOf(xs), Len(xs))
Min(xs) == Sorted(xs)[1]
Max(xs) == Sorted(xs)[Len(xs)]
Median(xs) ==
    LET n == Len(xs)
        data == Sorted(xs)
    IN  IF n % 2 = 1 THEN Frac(data[n \div 2 + 1], 1)
        ELSE Frac(data[n \div 2] + data[n \div 2 + 1], 2)
\* the rating of an average, with the limits on the other side
RatingInclusive(avg) ==
    IF avg.num <= 10 * avg.den THEN "Excellent"
    ELSE IF avg.num <= 50 * avg.den THEN "Good"
    ELSE IF avg.num <= 100 * avg.den THEN "Fair"
    ELSE "Poor"
\* avg_time < 10, < 50, < 100
Rating(avg) ==
    IF avg.num < 10 * avg.den THEN "Excellent"
    ELSE IF avg.num < 50 * avg.den THEN "Good"
    ELSE IF avg.num < 100 * avg.den THEN "Fair"
    ELSE "Poor"

PerfInit ==
    /\ queries \in SeqsUpTo(QueryResults, MaxQueries)
    /\ pstats = NoOp
TestPerformance ==
    /\ pstats = NoOp
    /\ LET response_times == ResponseTimes(queries)
       IN  pstats' =
             IF response_times # <<>>
             THEN [op |-> "statistics",
                   successful |-> Len(response_times), iterations |-> Len(queries),
                   avg |-> Mean(response_times), min |-> Min(response_times),
                   max |-> Max(response_times), median |-> Median(response_times),
                   rating |-> Rating(Mean(response_times))]
             ELSE [op |-> "no successful queries"]
    /\ UNCHANGED queries
    /\ UNCHANGED notPerfVars
PerfNext ==
    \/ TestPerformance
PerfSpecInit ==
    /\ CoreIdle
    /\ AccessIdle
    /\ DiagIdle
    /\ MenuIdle
    /\ FormatIdle
    /\ HintsIdle
    /\ FixIdle
    /\ PerfInit

SpecPerf == PerfSpecInit /\ [][PerfNext]_vars

\* the queries that succeeded, by position
Succeeded == {i \in 1..Len(queries) : queries[i].outcome = "zero"}
Elapsed(i) == queries[i].elapsed
Example == <<Query("zero", 10), Query("zero", 20), Query("zero", 30), Query("zero", 40)>>
\* C18: the statistics are those of exactly the queries that succeeded: the
\* count is theirs, the minimum and maximum are among them and bound them,
\* the mean times their number is their sum, at least half of them lie on
\* either side of the median; the mean is rated excellent below 10, good
\* from 10 and below 50, fair from 50 and below 100, poor from 100; and the
\* times 10, 20, 30, 40 give mean 25, median 25, min 10, max 40, good.
C18_StatisticsOfSuccessfulQueries ==
    pstats.op = "statistics" =>
      /\ Succeeded # {}
      /\ pstats.successful = Cardinality(Succeeded)
      /\ \E i \in Succeeded : Elapsed(i) = pstats.min
      /\ \E i \in Succeeded : Elapsed(i) = pstats.max
      /\ \A i \in Succeeded : pstats.min <= Elapsed(i) /\ Elapsed(i) <= pstats.max
      /\ pstats.avg.den = Cardinality(Succeeded)
      /\ pstats.avg.num = SumOf([i \in 1..Len(queries) |->
                                   IF i \in Succeeded THEN Elapsed(i) ELSE 0])
      /\ 2 * Cardinality({i \in Succeeded :
                            Elapsed(i) * pstats.median.den <= pstats.median.num})
            >= Cardinality(Succeeded)
      /\ 2 * Cardinality({i \in Succeeded :
                            Elapsed(i) * pstats.median.den >= pstats.median.num})
            >= Cardinality(Succeeded)
      /\ pstats.rating = "Excellent" <=> pstats.avg.num < 10 * pstats.avg.den
      /\ pstats.rating = "Good" <=> /\ pstats.avg.num >= 10 * pstats.avg.den
                                    /\ pstats.avg.num < 50 * pstats.avg.den
      /\ pstats.rating = "Fair" <=> /\ pstats.avg.num >= 50 * pstats.avg.den
                                    /\ pstats.avg.num < 100 * pstats.avg.den
      /\ pstats.rating = "Poor" <=> pstats.avg.num >= 100 * pstats.avg.den
      /\ queries = Example
            => /\ pstats.avg.num = 25 * pstats.avg.den
               /\ pstats.median.num = 25 * pstats.median.den
               /\ pstats.min = 10
               /\ pstats.max = 40
               /\ pstats.rating = "Good"
C18_Witness ==
    /\ pstats.op = "statistics"
    /\ queries = Example
    /\ pstats.rating = "Good"

(***************************************************************************)
(* The size formatters (utils.format_bytes, Troubleshooter._format_bytes,  *)
(* BackupManager._format_size).  A byte count is the sequence of its       *)
(* digits to the base 1024, lowest first; dividing by 1024.0 moves the     *)
(* point one digit up.  A formatted size is the unit, the whole part and   *)
(* the digits after the point of the scaled value, and the number of       *)
(* decimals it is printed with.                                            *)
(***************************************************************************)
Base == 1024
SizeDigits == {0, 1, Base - 1}
Sizes == [1..MaxDigits -> SizeDigits]
\* value < 1024.0, for the value with `point` digits after the point
Below1024(digits, point) == \A i \in (point + 2)..Len(digits) : digits[i] = 0
RECURSIVE WholePart(_, _)
WholePart(digits, point) ==
    IF point >= Len(digits) THEN 0
    ELSE digits[point + 1] + Base * WholePart(digits, point + 1)
Formatted(unit, digits, point, decimals) ==
    [unit |-> unit, whole |-> WholePart(digits, point),
     frac |-> SubSeq(digits, 1, point), decimals |-> decimals]
\* for unit in units: if value < 1024.0: return ...; value /= 1024.0
RECURSIVE FormatLoop(_, _, _, _, _)
FormatLoop(units, beyond, digits, point, decimals) ==
    IF units = <<>> THEN Formatted(beyond, digits, point, decimals)
    ELSE IF Below1024(digits, point) THEN Formatted(Head(units), digits, point, decimals)
    ELSE FormatLoop(Tail(units), beyond, digits, point + 1, decimals)
\* utils.format_bytes and Troubleshooter._format_bytes
FormatBytes(digits) == FormatLoop(<<"B", "KB", "MB", "GB", "TB">>, "PB", digits, 0, 2)
\* BackupManager._format_size
FormatSize(digits) == FormatLoop(<<"B", "KB", "MB", "GB">>, "TB", digits, 0, 1)

FormatInit ==
    /\ size \in Sizes
    /\ fmt = NoOp
FormatSizes ==
    /\ fmt = NoOp
    /\ fmt' = [op |-> "format", utils |-> FormatBytes(size),
               troubleshooter |-> FormatBytes(size), backup |-> FormatSize(size)]
    /\ UNCHANGED size
    /\ UNCHANGED notFormatVars
FormatNext ==
    \/ FormatSizes
FormatSpecInit ==
    /\ CoreIdle
    /\ AccessIdle
    /\ DiagIdle
    /\ MenuIdle
    /\ PerfIdle
    /\ HintsIdle
    /\ FixIdle
    /\ FormatInit

SpecFormat == FormatSpecInit /\ [][FormatNext]_vars

\* the byte count is below 1024 to the power k
BelowPower(k) == \A i \in (k + 1)..Len(size) : size[i] = 0
SameMagnitude(a, b) == a.unit = b.unit /\ a.whole = b.whole /\ a.frac = b.frac
\* C19 (as stated): format_bytes steps to the next unit exactly at each
\* power of 1024 (below 1024 the unit is B, 1024 is 1 KB), and the two other
\* formatters select the same unit and the same scaled magnitude as
\* format_bytes for every byte count.
C19_SameUnitEverywhere ==
    fmt.op = "format" =>
      /\ fmt.utils.unit = "B" <=> BelowPower(1)
      /\ fmt.utils.unit = "KB" <=> (BelowPower(2) /\ ~BelowPower(1))
      /\ fmt.utils.unit = "MB" <=> (BelowPower(3) /\ ~BelowPower(2))
      /\ fmt.utils.unit = "GB" <=> (BelowPower(4) /\ ~BelowPower(3))
      /\ fmt.utils.unit = "TB" <=> (BelowPower(5) /\ ~BelowPower(4))
      /\ fmt.utils.unit = "PB" <=> ~BelowPower(5)
      /\ (size[1] = 0 /\ size[2] = 1 /\ BelowPower(2))
            => (fmt.utils.whole = 1 /\ fmt.utils.frac = <<0>>)
      /\ SameMagnitude(fmt.troubleshooter, fmt.utils)
      /\ SameMagnitude(fmt.backup, fmt.utils)

(***************************************************************************)
(* Root hints (dnssec.py, utils.py).  setup_root_hints moves an existing   *)
(* root.hints aside to root.hints.bak, downloads the file from the primary *)
(* address and then from the backup address, and moves the copy back when  *)
(* both downloads fail.                                                    *)
(***************************************************************************)
NoHints == "absent"
\* what root.hints and root.hints.bak may hold before setup_root_hints
HintContents == {"hints_a", "hints_b"}
\* requests.get or raise_for_status raises ("refused"), iter_content raises after
\* open(destination, 'wb') ("broken"), or all chunks are written ("ok")
DownloadOutcomes == {"ok", "refused", "broken"}
HintUrls == <<"ROOT_HINTS_URL", "ROOT_HINTS_BACKUP_URL">>

\* download_file(url, destination): what it returns and what destination holds after
DownloadFile(url, destination, outcome) ==
    [ok |-> outcome = "ok",
     file |-> IF outcome = "ok" THEN url
              ELSE IF outcome = "broken" THEN "partial"
              ELSE destination]

\* the end of setup_root_hints without the renaming back
AfterFailedDownloadsNoRestore(backup_path, file, bak) ==
    [hints |-> file, bak |-> bak]
\* if backup_path and backup_path.exists(): backup_path.rename(ROOT_HINTS)
AfterFailedDownloads(backup_path, file, bak) ==
    IF backup_path /\ bak # NoHints
    THEN [hints |-> bak, bak |-> NoHints]
    ELSE [hints |-> file, bak |-> bak]

\* setup_root_hints on root.hints and root.hints.bak, the two downloads coming to
\* primary and mirror
SetupRootHints(file, bak, primary, mirror) ==
    LET backup_path == file # NoHints
        moved == IF backup_path THEN NoHints ELSE file
        kept == IF backup_path THEN file ELSE bak
        first == DownloadFile(HintUrls[1], moved, primary)
        second == DownloadFile(HintUrls[2], first.file, mirror)
        failed == AfterFailedDownloads(backup_path, second.file, kept)
    IN IF first.ok
       THEN [result |-> TRUE, hints |-> first.file, bak |-> kept,
             downloads |-> <<[url |-> HintUrls[1], outcome |-> primary]>>]
       ELSE IF second.ok
       THEN [result |-> TRUE, hints |-> second.file, bak |-> kept,
             downloads |-> <<[url |-> HintUrls[1], outcome |-> primary],
                             [url |-> HintUrls[2], outcome |-> mirror]>>]
       ELSE [result |-> FALSE, hints |-> failed.hints, bak |-> failed.bak,
             downloads |-> <<[url |-> HintUrls[1], outcome |-> primary],
                             [url |-> HintUrls[2], outcome |-> mirror]>>]

HintsInit ==
    /\ hints \in HintContents \cup {NoHints}
    /\ hintsBak \in HintContents \cup {NoHints}
    /\ hintCalls = 0
    /\ hlast = NoOp

\* DNSSECManager.setup_root_hints
CallSetupRootHints ==
    /\ hintCalls < MaxHintCalls
    /\ hintCalls' = hintCalls + 1
    /\ \E primary \in DownloadOutcomes, mirror \in DownloadOutcomes :
        LET r == SetupRootHints(hints, hintsBak, primary, mirror)
        IN /\ hints' = r.hints
           /\ hintsBak' = r.bak
           /\ hlast' = [op |-> "setup_root_hints", before |-> hints,
                        result |-> r.result, downloads |-> r.downloads]
    /\ UNCHANGED notHintsVars

HintsNext ==
    \/ CallSetupRootHints

HintsSpecInit ==
    /\ CoreIdle
    /\ AccessIdle
    /\ DiagIdle
    /\ MenuIdle
    /\ PerfIdle
    /\ FormatIdle
    /\ FixIdle
    /\ HintsInit

SpecHints == HintsSpecInit /\ [][HintsNext]_vars

\* both downloads of the last setup_root_hints were made and failed
BothDownloadsFailed ==
    /\ Len(hlast.downloads) = 2
    /\ \A i \in 1..2 : hlast.downloads[i].outcome # "ok"

\* C22: when root.hints exists before setup_root_hints and the download from the
\* primary address and the one from the backup address both fail, also when one
\* fails after it wrote part of the file, setup_root_hints returns False and
\* root.hints holds what it held before; the backup address is tried only after
\* the primary one, and only when that failed.
C22_FailedDownloadsKeepRootHints ==
    hlast.op = "setup_root_hints" =>
        /\ (hlast.before # NoHints /\ BothDownloadsFailed) =>
            /\ hlast.result = FALSE
            /\ hints = hlast.before
        /\ hlast.downloads[1].url = HintUrls[1]
        /\ Len(hlast.downloads) = 2 =>
            /\ hlast.downloads[2].url = HintUrls[2]
            /\ hlast.downloads[1].outcome # "ok"
C22_Witness ==
    /\ hlast.op = "setup_root_hints"
    /\ hlast.before = "hints_b"
    /\ BothDownloadsFailed
    /\ hlast.downloads[2].outcome = "broken"
    /\ hints = "hints_b"

(***************************************************************************)
(* fix_existing_installation over the files it looks after (installer.py,  *)
(* dnssec.py).  inst gives each file its content: Absent, 1 for what was   *)
(* there at the start, 1 + k for what run k of the fix wrote.  The .pem    *)
(* certificates that come with the two keys are left out.                  *)
(***************************************************************************)
MainConf == "/etc/unbound/unbound.conf"
RootHintsFile == "/etc/unbound/root.hints"
RootKeyFile == "/etc/unbound/root.key"
ServerKey == "/etc/unbound/unbound_server.key"
ControlKey == "/etc/unbound/unbound_control.key"
SystemdService == "/etc/systemd/system/unbound.service"
FixFiles == {MainConf, RootHintsFile, RootKeyFile, ServerKey, ControlKey, SystemdService}
Installations == [FixFiles -> {Absent, 1}]

\* what the programs outside the manager come to in one run:
\*   user       useradd succeeds when the account has to be made (it raises otherwise)
\*   primary, mirror   the two downloads of setup_root_hints
\*   setup      unbound-control-setup returns 0
\*   replaces   unbound-control-setup writes a key anew that is already there
\*   openssl    how many of the two "openssl req" commands succeed before one raises
FixOutcomes ==
    [user : BOOLEAN, primary : DownloadOutcomes, mirror : DownloadOutcomes,
     setup : BOOLEAN, replaces : BOOLEAN, openssl : 0..2]

\* every test "if not <file>.exists()" is taken to be true
MissingAlways(files, f) == TRUE
\* not <file>.exists()
Missing(files, f) == files[f] = Absent

Write(files, f, content) == [files EXCEPT ![f] = content]

\* setup_root_hints when root.hints is missing: the file exists afterwards when a
\* download was completed or broke off after the file was opened
FixRootHints(files, o, content) ==
    LET r == SetupRootHints(NoHints, NoHints, o.primary, o.mirror)
    IN IF r.hints = NoHints THEN Write(files, RootHintsFile, Absent)
       ELSE Write(files, RootHintsFile, content)

\* generate_control_keys, as fix_existing_installation calls it: the question whether
\* to regenerate is asked only when both keys exist, and is answered with the
\* default, no
GenerateControlKeys(files, o, content) ==
    IF ~Missing(files, ServerKey) /\ ~Missing(files, ControlKey) THEN files
    ELSE IF o.setup
    THEN [f \in FixFiles |->
            IF f \in {ServerKey, ControlKey} /\ (files[f] = Absent \/ o.replaces)
            THEN content ELSE files[f]]
    ELSE [f \in FixFiles |->
            IF (f = ServerKey /\ o.openssl >= 1) \/ (f = ControlKey /\ o.openssl >= 2)
            THEN content ELSE files[f]]

\* the steps of fix_existing_installation that write files, in their order
FixConfigurationStep(files, o, content) ==
    IF Missing(files, MainConf) THEN Write(files, MainConf, content) ELSE files
FixRootHintsStep(files, o, content) ==
    IF Missing(files, RootHintsFile) THEN FixRootHints(files, o, content) ELSE files
FixTrustAnchorStep(files, o, content) ==
    IF Missing(files, RootKeyFile) THEN Write(files, RootKeyFile, content) ELSE files
FixControlKeysStep(files, o, content) ==
    IF Missing(files, ServerKey) THEN GenerateControlKeys(files, o, content) ELSE files
FixSystemdStep(files, o, content) ==
    IF Missing(files, SystemdService) THEN Write(files, SystemdService, content) ELSE files

\* the calls made, by the files found missing
FixCalls(files, o) ==
    LET a == FixConfigurationStep(files, o, 1)
        b == FixRootHintsStep(a, o, 1)
        c == FixTrustAnchorStep(b, o, 1)
        d == FixControlKeysStep(c, o, 1)
    IN (IF Missing(files, MainConf) THEN {"create_full_configuration"} ELSE {})
        \cup (IF Missing(a, RootHintsFile) THEN {"setup_root_hints"} ELSE {})
        \cup (IF Missing(b, RootKeyFile) THEN {"setup_trust_anchor"} ELSE {})
        \cup (IF Missing(c, ServerKey) THEN {"generate_control_keys"} ELSE {})
        \cup (IF Missing(d, SystemdService) THEN {"create_systemd_service"} ELSE {})

\* fix_existing_installation: ensure_user_exists raises when useradd fails, and
\* nothing after it is run
FixInstallation(files, o, content) ==
    IF ~o.user THEN files
    ELSE FixSystemdStep(
            FixControlKeysStep(
              FixTrustAnchorStep(
                FixRootHintsStep(
                  FixConfigurationStep(files, o, content), o, content), o, content),
              o, content), o, content)

\* every program outside the manager did what it was run for
AllSucceed(o) == o.user /\ o.primary = "ok" /\ o.setup

FixInit ==
    /\ inst \in Installations
    /\ fixRuns = 0
    /\ xlast = NoOp

\* UnboundInstaller.fix_existing_installation
RunFix ==
    /\ fixRuns < MaxFixRuns
    /\ fixRuns' = fixRuns + 1
    /\ \E o \in FixOutcomes :
        /\ inst' = FixInstallation(inst, o, fixRuns + 2)
        /\ xlast' = [op |-> "fix", before |-> inst, completed |-> o.user,
                     succeeded |-> AllSucceed(o),
                     called |-> IF o.user THEN FixCalls(inst, o) ELSE {}]
    /\ UNCHANGED notFixVars

FixNext ==
    \/ RunFix

FixSpecInit ==
    /\ CoreIdle
    /\ AccessIdle
    /\ DiagIdle
    /\ MenuIdle
    /\ PerfIdle
    /\ FormatIdle
    /\ HintsIdle
    /\ FixInit

SpecFix == FixSpecInit /\ [][FixNext]_vars

\* the call that makes each file
Maker ==
    [f \in FixFiles |->
        CASE f = MainConf -> "create_full_configuration"
          [] f = RootHintsFile -> "setup_root_hints"
          [] f = RootKeyFile -> "setup_trust_anchor"
          [] f = SystemdService -> "create_systemd_service"
          [] OTHER -> "generate_control_keys"]
KeyFiles == {ServerKey, ControlKey}

\* C23: fix_existing_installation makes a file anew only when it is missing: with
\* the main configuration, the root hints, the trust anchor or the systemd unit in
\* place, the call that makes it is not made and the file keeps its content; with
\* the control keys in place they are not generated again; on a complete
\* installation every one of these files keeps its content.
C23_OnlyMissingFilesAreMade ==
    xlast.op = "fix" =>
        /\ \A f \in FixFiles \ KeyFiles :
            xlast.before[f] # Absent =>
                (inst[f] = xlast.before[f] /\ Maker[f] \notin xlast.called)
        /\ (\A f \in KeyFiles : xlast.before[f] # Absent) =>
            /\ \A f \in KeyFiles : inst[f] = xlast.before[f]
            /\ "generate_control_keys" \notin xlast.called
        /\ (\A f \in FixFiles : xlast.before[f] # Absent) =>
            (inst = xlast.before /\ xlast.called = {})
\* a run that found only the main configuration missing: it is made, the rest kept
C23_Witness ==
    /\ xlast.op = "fix"
    /\ xlast.completed
    /\ xlast.before[MainConf] = Absent
    /\ \A f \in FixFiles \ {MainConf} : xlast.before[f] # Absent /\ inst[f] = xlast.before[f]
    /\ inst[MainConf] = fixRuns + 1
    /\ xlast.called = {"create_full_configuration"}

\* C30 (as stated): after fix_existing_installation has run through with every
\* program it runs succeeding, the five files run_diagnostics requires all exist,
\* whichever of them were missing before.
C30_FixLeavesRequiredFiles ==
    (xlast.op = "fix" /\ xlast.succeeded) =>
        \A f \in RequiredPaths : inst[f] # Absent

====
